---- MODULE Spec2Model ----
(***************************************************************************)
(* Persistence layer of the Sriram Coaters ERP (SQLite file description.db)*)
(* and the BillingEntryPage flows that drive it.                           *)
(*                                                                         *)
(* Tables are sets of rows (records keyed by column name).  Every store    *)
(* function is an operator that returns its result and the tables it       *)
(* leaves behind; an action performs one call and records it in `last`.    *)
(* The surrogate id of invoice_line_items is left out: rows are told apart *)
(* by their data columns, and no caller reads the id.                      *)
(* A storage fault (sqlite3.OperationalError: locked file, disk error) may *)
(* strike any call at connect, at a statement, or at commit.               *)
(***************************************************************************)
EXTENDS Integers, Sequences, FiniteSets, TLC

VARIABLES
    invoice_headers,      \* table invoice_headers
    invoice_line_items,   \* table invoice_line_items
    last,                 \* the most recent billing call: what, on what, its result
    workers,              \* table workers
    worker_seq,           \* sqlite_sequence of workers (AUTOINCREMENT)
    attendance,           \* table attendance
    overtime,             \* table overtime
    overtime_seq,         \* sqlite_sequence of overtime (AUTOINCREMENT)
    last_saved,           \* per (worker_id, date): the record most recently saved
    last_hr,              \* the most recent worker/attendance/overtime call
    invoice_no_var,       \* BillingEntryPage: text of the invoice number entry
    line_items_data,      \* BillingEntryPage: the line items of the form
    next_line_no,         \* BillingEntryPage: line number of the next item
    edit_mode,            \* BillingEntryPage: an invoice is being edited
    editing_invoice_no,   \* BillingEntryPage: which one (<<>> is None)
    selected_invoice_no,  \* BillingEntryPage: history selection (<<>> is None)
    history_tree,         \* BillingEntryPage: invoice numbers the history shows
    last_ui,              \* BillingEntryPage: the most recent run of Save Invoice
    tables,               \* the tables the database file has
    description_master,   \* table description_master: a set of rows
    description_seq,      \* AUTOINCREMENT counter of description_master
    last_desc,            \* the most recent init_db or description call
    open_connections,     \* connections opened by a call and not closed since
    last_conn,            \* connections the most recent handler opened, closed
    ot_summary_treeview,  \* OTManagementPage: the overtime rows the summary shows
    description_cb,       \* DataEntryPage: the descriptions the combobox lists
    last_popup            \* AddDescriptionPopup: the most recent Save Description

billing_vars == <<invoice_headers, invoice_line_items>>
hr_tables == <<workers, worker_seq, attendance, overtime, overtime_seq>>
hr_vars == <<workers, worker_seq, attendance, overtime, overtime_seq,
             last_saved, last_hr>>
ui_vars == <<invoice_no_var, line_items_data, next_line_no, edit_mode,
             editing_invoice_no, selected_invoice_no, history_tree, last_ui>>
conn_vars == <<open_connections, last_conn>>
popup_vars == <<description_cb, last_popup>>
page_vars == <<ot_summary_treeview, description_cb, last_popup>>
desc_vars == <<tables, description_master, description_seq, last_desc>>
vars == <<invoice_headers, invoice_line_items, last, workers, worker_seq,
          attendance, overtime, overtime_seq, last_saved, last_hr,
          invoice_no_var, line_items_data, next_line_no, edit_mode,
          editing_invoice_no, selected_invoice_no, history_tree, last_ui,
          tables, description_master, description_seq, last_desc,
          open_connections, last_conn, ot_summary_treeview, description_cb,
          last_popup>>

----------------------------------------------------------------------------
(* Values *)

\* SQL NULL / Python None in a TEXT column.
NULL == "NULL"
\* SQL NULL / Python None in a REAL or INTEGER column (real values are >= 0).
NULLREAL == -1

RealColumns == {"total_amount", "gst_percentage", "line_no", "quantity", "rate",
                "amount", "salary_amount", "worker_id", "ot_hours", "ot_rate",
                "ot_amount"}

\* dict.get(key): the value, or None when the key is absent.
DictGet(d, key) ==
    IF key \in DOMAIN d THEN d[key]
    ELSE IF key \in RealColumns THEN NULLREAL ELSE NULL

\* whether the value bound to a column is None (an invoice_no is always given)
IsNull(col, v) ==
    IF col = "invoice_no" THEN FALSE
    ELSE IF col \in RealColumns THEN v = NULLREAL ELSE v = NULL

Range(s) == {s[i] : i \in DOMAIN s}

\* Where a storage fault strikes a call.
FaultPoints == {"none", "connect", "execute", "commit"}

----------------------------------------------------------------------------
(* Bounds and inputs *)

MaxBatchLen == 2

\* invoice numbers are strings: sequences of characters
InvoiceNos == {<<"1">>, <<"0", "0", "2">>}

\* header payloads (without the invoice_no key), as the module's tests pass them
HeaderInputs == <<
    [date |-> "2024-07-01", customer_name |-> "Edit Test Initial",
     total_amount |-> 100, gst_percentage |-> 10, payment_method |-> "Cash",
     grn_date_from |-> "2024-06-01", grn_date_to |-> "2024-06-15",
     po_number |-> "PO123"],
    [date |-> "2023-01-01", customer_name |-> "Test 1"],
    [customer_name |-> "Test 2"] >>

\* partial records for update_invoice_header
UpdateInputs == <<
    [customer_name |-> "Edit Test Updated", total_amount |-> 120,
     grn_date_from |-> "2024-06-20", grn_date_to |-> NULL,
     po_number |-> "PO456Updated"],
    [customer_name |-> "X"],
    [invoice_no |-> <<"9">>, customer_name |-> "Y"],
    [invoice_no |-> <<"9">>],
    [date |-> NULL, customer_name |-> "W"],
    [bogus |-> "x"] >>

\* line items (without the invoice_no key)
ItemInputs == <<
    [line_no |-> 1, item_description |-> "Item A", part_no |-> "P1",
     hsn_code |-> "H1", quantity |-> 1, rate |-> 50, amount |-> 50],
    [line_no |-> 2, item_description |-> "Item B", part_no |-> "P2",
     hsn_code |-> "H2", quantity |-> 1, rate |-> 50, amount |-> 50],
    [line_no |-> 2, item_description |-> "Item C", part_no |-> "P3",
     hsn_code |-> "H3", quantity |-> NULLREAL, rate |-> 10, amount |-> 20],
    [line_no |-> 2, item_description |-> "Item D", part_no |-> "P4",
     hsn_code |-> "H4", quantity |-> 2, rate |-> 10, amount |-> 20] >>

\* the lists of item indices a batch may hold
BatchInputs == UNION {[1..n -> DOMAIN ItemInputs] : n \in 0..MaxBatchLen}

----------------------------------------------------------------------------
(* Schema: database_utils.init_db *)

header_columns == <<"invoice_no", "date", "customer_name", "total_amount",
                    "gst_percentage", "payment_method", "grn_date_from",
                    "grn_date_to", "po_number">>

line_item_columns == <<"invoice_no", "line_no", "item_description", "part_no",
                       "hsn_code", "quantity", "rate", "amount">>

\* NOT NULL columns
HeaderNotNull == {"date", "customer_name"}
LineItemNotNull == {"invoice_no", "line_no", "quantity", "rate", "amount"}

\* invoice_no TEXT PRIMARY KEY
HeaderPrimaryKeyTaken(headers, invoice_no) ==
    \E h \in headers : h.invoice_no = invoice_no

\* the table without its UNIQUE (invoice_no, line_no) constraint
LineItemNoUniqueConstraint(rows, invoice_no, line_no) == FALSE

\* UNIQUE (invoice_no, line_no)
LineItemUniqueTaken(rows, invoice_no, line_no) ==
    \E r \in rows : r.invoice_no = invoice_no /\ r.line_no = line_no

\* FOREIGN KEY (invoice_no) ... ON DELETE CASCADE, in force only on a
\* connection that ran PRAGMA foreign_keys = ON
CascadeLineItems(rows, invoice_no, foreign_keys) ==
    IF foreign_keys THEN {r \in rows : r.invoice_no # invoice_no} ELSE rows

----------------------------------------------------------------------------
(* Connections and transactions: sqlite3 *)

\* a rollback that undoes nothing (a connection in autocommit mode)
RollbackKeepsWritten(committed, tx) == tx

\* conn.rollback(): the tables go back to what was last committed
Rollback(committed, tx) == committed

\* conn.close() with an open transaction: what was not committed is discarded
CloseConnection(committed, tx) == committed

----------------------------------------------------------------------------
(* Connections: sqlite3.connect(DB_NAME) and conn.close() *)

\* how many connections a call has opened and closed
NoConnection == [opened |-> 0, closed |-> 0]

\* conn = sqlite3.connect(DB_NAME): one more connection, unless it raises
Connect(c, fails) == IF fails THEN c ELSE [c EXCEPT !.opened = @ + 1]

\* conn.close() as the last statement of the try block: skipped when a storage
\* step raised
CloseAtEndOfTry(c, conn, fault) ==
    IF conn /\ fault = "none" THEN [c EXCEPT !.closed = @ + 1] ELSE c

\* finally: if conn: conn.close()  -- runs however the try block ended; conn is
\* FALSE when no connection was assigned
FinallyClose(c, conn, fault) ==
    IF conn THEN [c EXCEPT !.closed = @ + 1] ELSE c

\* billing_db, attendance_db: conn = None; try: conn = sqlite3.connect(...) ...
\* finally: if conn: conn.close()
ConnectInsideTry(fault) ==
    LET conn == fault # "connect"
    IN  FinallyClose(Connect(NoConnection, ~conn), conn, fault)

\* worker_db, ot_db, data_entry: conn = sqlite3.connect(...); try: ...
\* finally: conn.close()   (a connect that raises leaves nothing to close)
ConnectBeforeTry(fault) ==
    IF fault = "connect" THEN NoConnection
    ELSE FinallyClose(Connect(NoConnection, FALSE), TRUE, fault)

\* get_last_invoice_no: when the first connect raises OperationalError the
\* fallback finds conn is None and connects again ("reconnect": the second
\* connect goes through; "connect": it raises too); otherwise the fallback
\* reuses the connection; the one finally closes whichever was assigned
get_last_invoice_no_connections(fault) ==
    LET first == Connect(NoConnection, fault \in {"connect", "reconnect"})
        second == IF fault \in {"connect", "reconnect"}
                  THEN Connect(first, fault = "connect")
                  ELSE first
    IN  FinallyClose(second, fault # "connect", fault)

\* init_db: conn.close() is its last statement and there is no try block, so a
\* step that raises leaves the connection open
init_db_connections(fault, result) ==
    LET c == Connect(NoConnection, fault = "connect")
    IN  IF fault # "connect" /\ result # "raises"
        THEN [c EXCEPT !.closed = @ + 1] ELSE c

\* the connections of two calls made one after the other
Plus(c1, c2) ==
    [opened |-> c1.opened + c2.opened, closed |-> c1.closed + c2.closed]

\* a handler whose store calls opened and closed the connections c
Uses(c) ==
    /\ open_connections' = open_connections + c.opened - c.closed
    /\ last_conn' = c

\* init_db is the first call of a process (main_app.py): no connection is open
\* when it starts
StartsWith(c) ==
    /\ open_connections' = c.opened - c.closed
    /\ last_conn' = c

----------------------------------------------------------------------------
(* billing_db: each function takes the tables as it finds them (db) and       *)
(* returns its result with the tables as it leaves them                     *)

\* the tables as they are now
BillingDb ==
    [invoice_headers |-> invoice_headers,
     invoice_line_items |-> invoice_line_items]

Returns(result, db) == [result |-> result, db |-> db]

\* INSERT OR REPLACE in place of INSERT: a taken invoice_no is overwritten
add_invoice_header_or_replace(db, header_data, fault) ==
    LET data_for_insert ==
            [col \in Range(header_columns) |-> DictGet(header_data, col)]
        tx == [db EXCEPT
                  !.invoice_headers =
                      {h \in db.invoice_headers :
                           h.invoice_no # data_for_insert.invoice_no}
                      \cup {data_for_insert}]
    IN  IF fault \in {"connect", "execute"}
          THEN Returns("False", db)
        ELSE IF \E col \in HeaderNotNull : IsNull(col, data_for_insert[col])
          THEN Returns("DUPLICATE", db)
        ELSE IF fault = "commit"
          THEN Returns("False", db)
        ELSE Returns("True", tx)

add_invoice_header(db, header_data, fault) ==
    LET data_for_insert ==
            [col \in Range(header_columns) |-> DictGet(header_data, col)]
        IntegrityError ==
            \/ \E col \in HeaderNotNull : IsNull(col, data_for_insert[col])
            \/ HeaderPrimaryKeyTaken(db.invoice_headers, data_for_insert.invoice_no)
        tx == [db EXCEPT
                  !.invoice_headers = db.invoice_headers \cup {data_for_insert}]
    IN  IF fault \in {"connect", "execute"}
          THEN Returns("False", CloseConnection(db, db))
        ELSE IF IntegrityError
          THEN Returns("DUPLICATE", Rollback(db, db))
        ELSE IF fault = "commit"
          THEN Returns("False", CloseConnection(db, tx))
        ELSE Returns("True", tx)

\* cursor.executemany(INSERT INTO invoice_line_items ...): one INSERT per item, in
\* list order, inside one transaction; stops at the first statement that raises
RECURSIVE ExecuteManyLineItems(_, _, _, _)
ExecuteManyLineItems(line_items_list, i, tx, fault_at) ==
    IF i > Len(line_items_list) \/ tx.error # "none" THEN tx
    ELSE
      LET item == line_items_list[i]
          row == [col \in Range(line_item_columns) |-> item[col]]
      IN  IF fault_at = i
            THEN [tx EXCEPT !.error = "OperationalError"]
          ELSE IF \E col \in Range(line_item_columns) : col \notin DOMAIN item
            THEN [tx EXCEPT !.error = "ProgrammingError"]
          ELSE IF \/ \E col \in LineItemNotNull : IsNull(col, item[col])
                  \/ LineItemUniqueTaken(tx.db.invoice_line_items,
                                         item.invoice_no, item.line_no)
            THEN [tx EXCEPT !.error = "IntegrityError"]
          ELSE ExecuteManyLineItems(line_items_list, i + 1,
                 [tx EXCEPT
                    !.db.invoice_line_items = tx.db.invoice_line_items \cup {row}],
                 fault_at)

\* the transaction of add_invoice_line_items_batch as it stands when executemany
\* ends; fault_at: the index of the INSERT an "execute" fault strikes
LineItemsTx(db, line_items_list, fault, fault_at) ==
    ExecuteManyLineItems(line_items_list, 1, [db |-> db, error |-> "none"],
                         IF fault = "execute" THEN fault_at ELSE 0)

add_invoice_line_items_batch(db, line_items_list, fault, fault_at) ==
    LET tx == LineItemsTx(db, line_items_list, fault, fault_at)
    IN  IF fault = "connect"
          THEN Returns("False", db)
        ELSE IF tx.error = "OperationalError"
          THEN Returns("False", CloseConnection(db, tx.db))
        ELSE IF tx.error # "none"
          THEN Returns("False", Rollback(db, tx.db))
        ELSE IF fault = "commit"
          THEN Returns("False", CloseConnection(db, tx.db))
        ELSE Returns("True", tx.db)

\* delete_invoice_header without its PRAGMA foreign_keys = ON
delete_invoice_header_no_pragma(db, invoice_no, fault) ==
    LET tx == [db EXCEPT
                 !.invoice_headers =
                     {h \in db.invoice_headers : h.invoice_no # invoice_no},
                 !.invoice_line_items =
                     CascadeLineItems(db.invoice_line_items, invoice_no, FALSE)]
    IN  IF fault = "none" THEN Returns("True", tx) ELSE Returns("False", db)

\* delete_invoice_header that takes a DELETE matching no row for a failure
delete_invoice_header_needs_row(db, invoice_no, fault) ==
    LET tx == [db EXCEPT
                 !.invoice_headers =
                     {h \in db.invoice_headers : h.invoice_no # invoice_no},
                 !.invoice_line_items =
                     CascadeLineItems(db.invoice_line_items, invoice_no, TRUE)]
    IN  IF fault # "none" \/ ~HeaderPrimaryKeyTaken(db.invoice_headers, invoice_no)
          THEN Returns("False", db)
        ELSE Returns("True", tx)

delete_invoice_header(db, invoice_no, fault) ==
    LET foreign_keys == TRUE    \* PRAGMA foreign_keys = ON
        tx == [db EXCEPT
                 !.invoice_headers =
                     {h \in db.invoice_headers : h.invoice_no # invoice_no},
                 !.invoice_line_items =
                     CascadeLineItems(db.invoice_line_items, invoice_no, foreign_keys)]
    IN  IF fault \in {"connect", "execute"}
          THEN Returns("False", CloseConnection(db, db))
        ELSE IF fault = "commit"
          THEN Returns("False", CloseConnection(db, tx))
        ELSE Returns("True", tx)

\* Option: <<>> is None, <<row>> is the row
get_invoice_header_by_no(db, invoice_no) ==
    IF \E h \in db.invoice_headers : h.invoice_no = invoice_no
    THEN <<CHOOSE h \in db.invoice_headers : h.invoice_no = invoice_no>>
    ELSE <<>>

\* ORDER BY line_no
RECURSIVE OrderByLineNo(_)
OrderByLineNo(rows) ==
    IF rows = {} THEN <<>>
    ELSE LET first == CHOOSE r \in rows : \A q \in rows : r.line_no <= q.line_no
         IN  <<first>> \o OrderByLineNo(rows \ {first})

get_line_items_for_invoice(db, invoice_no) ==
    OrderByLineNo({r \in db.invoice_line_items : r.invoice_no = invoice_no})

\* update_invoice_header that leaves 'invoice_no' in its SET clause
update_invoice_header_sets_invoice_no(db, invoice_no, header_data, fault) ==
    LET set_keys == DOMAIN header_data
        matched == {h \in db.invoice_headers : h.invoice_no = invoice_no}
        updated(h) == [col \in Range(header_columns) |->
                          IF col \in set_keys THEN header_data[col] ELSE h[col]]
        tx == [db EXCEPT
                 !.invoice_headers =
                     (db.invoice_headers \ matched) \cup {updated(h) : h \in matched}]
    IN  IF fault # "none" THEN Returns("False", db)
        ELSE IF set_keys = {} \/ ~(set_keys \subseteq Range(header_columns))
          THEN Returns("False", db)
        ELSE IF matched # {} /\ \E col \in set_keys \cap HeaderNotNull :
                                    IsNull(col, header_data[col])
          THEN Returns("False", db)
        ELSE Returns(IF matched # {} THEN "True" ELSE "False", tx)

\* an update that inserts the header when no stored header has the invoice_no
update_invoice_header_or_insert(db, invoice_no, header_data, fault) ==
    LET set_keys == DOMAIN header_data \ {"invoice_no"}
        matched == {h \in db.invoice_headers : h.invoice_no = invoice_no}
        row == [col \in Range(header_columns) |->
                   IF col = "invoice_no" THEN invoice_no
                   ELSE IF col \in set_keys THEN header_data[col]
                   ELSE IF matched # {}
                     THEN (CHOOSE h \in matched : TRUE)[col]
                   ELSE IF col \in RealColumns THEN NULLREAL ELSE NULL]
        tx == [db EXCEPT
                 !.invoice_headers = (db.invoice_headers \ matched) \cup {row}]
    IN  IF fault # "none" THEN Returns("False", db) ELSE Returns("True", tx)

update_invoice_header(db, invoice_no, header_data, fault) ==
    LET \* the SET clause: the keys of header_data, without 'invoice_no'
        set_keys == DOMAIN header_data \ {"invoice_no"}
        matched == {h \in db.invoice_headers : h.invoice_no = invoice_no}
        updated(h) == [col \in Range(header_columns) |->
                          IF col \in set_keys THEN header_data[col] ELSE h[col]]
        tx == [db EXCEPT
                 !.invoice_headers =
                     (db.invoice_headers \ matched) \cup {updated(h) : h \in matched}]
        rowcount == Cardinality(matched)
    IN  IF fault \in {"connect", "execute"}
          THEN Returns("False", CloseConnection(db, db))
        ELSE IF set_keys = {} \/ ~(set_keys \subseteq Range(header_columns))
          \* OperationalError: syntax error near WHERE / no such column
          THEN Returns("False", CloseConnection(db, db))
        ELSE IF matched # {} /\ \E col \in set_keys \cap HeaderNotNull :
                                    IsNull(col, header_data[col])
          THEN Returns("False", Rollback(db, db))
        ELSE IF fault = "commit"
          THEN Returns("False", CloseConnection(db, tx))
        ELSE Returns(IF rowcount > 0 THEN "True" ELSE "False", tx)

delete_line_items_for_invoice(db, invoice_no, fault) ==
    LET tx == [db EXCEPT
                 !.invoice_line_items =
                     {r \in db.invoice_line_items : r.invoice_no # invoice_no}]
    IN  IF fault \in {"connect", "execute"}
          THEN Returns("False", CloseConnection(db, db))
        ELSE IF fault = "commit"
          THEN Returns("False", CloseConnection(db, tx))
        ELSE Returns("True", tx)

\* a call with an empty list executes nothing, so no statement of it can fail
BatchFaults(b) == IF Len(b) = 0 THEN FaultPoints \ {"execute"} ELSE FaultPoints

\* where an "execute" fault may strike a list of n statements
FaultAts(fault, n) == IF fault = "execute" THEN 1..n ELSE {0}

----------------------------------------------------------------------------
(* Strings as sequences of characters: what Python and SQLite do with the     *)
(* text of an invoice number                                                  *)

\* the characters that occur, in code-point order
Alphabet == <<" ", "+", "-", "0", "1", "2", "3", "4", "5", "6", "7", "8", "9",
              "A", "I", "N", "V">>

DigitChars == <<"0", "1", "2", "3", "4", "5", "6", "7", "8", "9">>

CharCode(c) == CHOOSE i \in DOMAIN Alphabet : Alphabet[i] = c

\* str.isdigit() of one character
IsDigit(c) == c \in Range(DigitChars)

DigitValue(c) == (CHOOSE i \in DOMAIN DigitChars : DigitChars[i] = c) - 1

\* str.isdigit(): not empty, and every character a digit
IsDigitStr(s) == Len(s) > 0 /\ \A i \in DOMAIN s : IsDigit(s[i])

\* int(s) of a string of digits
RECURSIVE ParseInt(_)
ParseInt(s) ==
    IF Len(s) = 0 THEN 0
    ELSE 10 * ParseInt(SubSeq(s, 1, Len(s) - 1)) + DigitValue(s[Len(s)])

\* str(n)
RECURSIVE IntToStr(_)
IntToStr(n) ==
    IF n < 0 THEN <<"-">> \o IntToStr(0 - n)
    ELSE IF n < 10 THEN <<DigitChars[n + 1]>>
    ELSE IntToStr(n \div 10) \o <<DigitChars[(n % 10) + 1]>>

\* str.zfill(width): zeros on the left, after a leading sign
zfill(s, width) ==
    LET zeros == [i \in 1..(width - Len(s)) |-> "0"]
    IN  IF Len(s) >= width THEN s
        ELSE IF Len(s) > 0 /\ s[1] \in {"+", "-"}
          THEN <<s[1]>> \o zeros \o Tail(s)
        ELSE zeros \o s

\* str.strip() of blanks
RECURSIVE Strip(_)
Strip(s) ==
    IF Len(s) > 0 /\ s[1] = " " THEN Strip(Tail(s))
    ELSE IF Len(s) > 0 /\ s[Len(s)] = " " THEN Strip(SubSeq(s, 1, Len(s) - 1))
    ELSE s

\* the longest prefix of s made of digits
RECURSIVE DigitPrefix(_)
DigitPrefix(s) ==
    IF Len(s) > 0 /\ IsDigit(s[1]) THEN <<s[1]>> \o DigitPrefix(Tail(s)) ELSE <<>>

\* the first non-blank position of s (Len(s) + 1 when s is blank)
RECURSIVE SkipBlanks(_, _)
SkipBlanks(s, i) ==
    IF i <= Len(s) /\ s[i] = " " THEN SkipBlanks(s, i + 1) ELSE i

\* SQLite CAST(text AS INTEGER): leading blanks are skipped, then an optional sign
\* and the longest run of digits is read; 0 when there is none
CastAsInteger(s) ==
    LET start == SkipBlanks(s, 1)
        t == SubSeq(s, start, Len(s))
        signed == Len(t) > 0 /\ t[1] \in {"+", "-"}
        digits == DigitPrefix(IF signed THEN Tail(t) ELSE t)
    IN  IF signed /\ t[1] = "-" THEN 0 - ParseInt(digits) ELSE ParseInt(digits)

\* a < b in SQLite's BINARY collation (byte by byte, a proper prefix first)
RECURSIVE TextLess(_, _)
TextLess(a, b) ==
    IF Len(b) = 0 THEN FALSE
    ELSE IF Len(a) = 0 THEN TRUE
    ELSE IF a[1] # b[1] THEN CharCode(a[1]) < CharCode(b[1])
    ELSE TextLess(Tail(a), Tail(b))

\* the number spelled by the digits of s, the other characters left out
RECURSIVE DigitsOf(_)
DigitsOf(s) ==
    IF Len(s) = 0 THEN <<>>
    ELSE (IF IsDigit(s[1]) THEN <<s[1]>> ELSE <<>>) \o DigitsOf(Tail(s))

\* where a storage fault strikes a call that only reads
ReadFaultPoints == {"none", "connect", "reconnect", "execute"}

\* get_last_invoice_no with the lexicographic query only
get_last_invoice_no_lexicographic(db, fault) ==
    LET nonempty == {h.invoice_no : h \in db.invoice_headers} \ {<<>>}
        text_max == CHOOSE m \in nonempty :
                        \A t \in nonempty : t = m \/ TextLess(t, m)
    IN  IF fault = "connect" \/ nonempty = {} THEN <<>> ELSE <<text_max>>

\* get_last_invoice_no on a store whose CAST raises for text that is no number:
\* one such invoice_no sends the call to the lexicographic query
get_last_invoice_no_strict_cast(db, fault) ==
    LET nos == {h.invoice_no : h \in db.invoice_headers}
        casts == {CastAsInteger(n) : n \in nos}
        numeric_max == CHOOSE m \in casts : \A c \in casts : c <= m
        nonempty == nos \ {<<>>}
        text_max == CHOOSE m \in nonempty :
                        \A t \in nonempty : t = m \/ TextLess(t, m)
    IN  IF fault = "connect" THEN <<>>
        ELSE IF fault = "none" /\ casts # {} /\ \A n \in nos : IsDigitStr(n)
          THEN <<IntToStr(numeric_max)>>
        ELSE IF nonempty # {} THEN <<text_max>>
        ELSE <<>>

\* Option: <<>> is None, <<s>> is the string s.  A fault at "execute" strikes
\* the primary query and the fallback query runs; a fault at "connect" strikes
\* both connection attempts, one at "reconnect" the first attempt only
get_last_invoice_no(db, fault) ==
    LET casts == {CastAsInteger(h.invoice_no) : h \in db.invoice_headers}
        numeric_max == CHOOSE m \in casts : \A c \in casts : c <= m
        nonempty == {h.invoice_no : h \in db.invoice_headers} \ {<<>>}
        text_max == CHOOSE m \in nonempty :
                        \A t \in nonempty : t = m \/ TextLess(t, m)
    IN  IF fault = "connect" THEN <<>>
        ELSE IF fault = "none" /\ casts # {} THEN <<IntToStr(numeric_max)>>
        ELSE IF nonempty # {} THEN <<text_max>>
        ELSE <<>>

\* the list of headers the history shows; order (date DESC, invoice_no DESC) is
\* left out: the rows are a set
get_all_invoice_headers(db, fault) ==
    IF fault = "none" THEN db.invoice_headers ELSE {}

----------------------------------------------------------------------------
(* Workers, attendance and overtime: schema and inputs *)

MaxWorkers == 2
MaxOtRecords == 2

WorkerIds == 1..MaxWorkers
Dates == {"2024-07-20", "2024-07-21"}

worker_columns == <<"first_name", "last_name", "photo_path", "address",
                    "contact_number", "previous_experience", "salary_amount",
                    "salary_frequency", "role", "joining_date", "id_proof_path">>

attendance_columns == <<"worker_id", "date", "status", "punch_in_time",
                        "punch_out_time">>

WorkerNotNull == {"first_name"}
AttendanceNotNull == {"worker_id", "date", "status"}
OvertimeNotNull == {"worker_id", "date", "ot_hours", "ot_rate", "ot_amount"}

\* worker payloads
WorkerInputs == <<
    [first_name |-> "Test", last_name |-> "User", photo_path |-> NULL,
     address |-> "1 Test St", contact_number |-> "111-2222",
     previous_experience |-> "2 years", salary_amount |-> 60000,
     salary_frequency |-> "Monthly", role |-> "Tester",
     joining_date |-> "2024-01-01", id_proof_path |-> NULL],
    [last_name |-> "User", role |-> "Tester"] >>

\* the dictionaries update_worker is called with: every column, first_name
\* alone, and two columns without first_name
UpdateWorkerInputs == <<
    [first_name |-> "Test", last_name |-> "User", photo_path |-> NULL,
     address |-> "1 Test St", contact_number |-> "111-2222",
     previous_experience |-> "2 years", salary_amount |-> 65000,
     salary_frequency |-> "Monthly", role |-> "Senior Tester",
     joining_date |-> "2024-01-01", id_proof_path |-> NULL],
    [first_name |-> "Test"],
    [role |-> "Senior Tester", salary_amount |-> 65000] >>

\* what an attendance record says of its (worker_id, date)
AttendanceInputs == <<
    [status |-> "Absent", punch_in_time |-> "", punch_out_time |-> ""],
    [status |-> "Present", punch_in_time |-> "10:00", punch_out_time |-> "18:00"],
    [status |-> NULL, punch_in_time |-> "09:00", punch_out_time |-> "17:00"] >>

\* ot_hours, ot_rate, ot_amount of an overtime record
OtInputs == <<
    [ot_hours |-> 2, ot_rate |-> 150, ot_amount |-> 300],
    [ot_hours |-> NULLREAL, ot_rate |-> 150, ot_amount |-> 225] >>

\* the records a batch may hold: (worker_id, date, index into AttendanceInputs)
AttendanceRecordInputs == WorkerIds \X Dates \X DOMAIN AttendanceInputs

AttendanceBatchInputs ==
    UNION {[1..n -> AttendanceRecordInputs] : n \in 0..MaxBatchLen}

\* FOREIGN KEY (worker_id) REFERENCES workers(id) ON DELETE CASCADE, in force
\* only on a connection that ran PRAGMA foreign_keys = ON
CascadeWorkerRows(rows, worker_id, foreign_keys) ==
    IF foreign_keys THEN {r \in rows : r.worker_id # worker_id} ELSE rows

\* INSERT OR IGNORE: a row whose (worker_id, date) is taken is left as it is
InsertOrIgnore(rows, rec) ==
    IF \E r \in rows : r.worker_id = rec.worker_id /\ r.date = rec.date
    THEN rows
    ELSE rows \cup {rec}

\* INSERT ... ON CONFLICT(worker_id, date) DO UPDATE SET status, punch_in_time,
\* punch_out_time = excluded.*  (the surrogate id is left out: no caller reads it)
Upsert(rows, rec) ==
    {r \in rows : ~(r.worker_id = rec.worker_id /\ r.date = rec.date)} \cup {rec}

----------------------------------------------------------------------------
(* worker_db, attendance_db, ot_db *)

\* the tables as they are now
HrDb ==
    [workers |-> workers, worker_seq |-> worker_seq, attendance |-> attendance,
     overtime |-> overtime, overtime_seq |-> overtime_seq]

\* a function that returned cursor.lastrowid
ReturnsRowId(rowid, db) == [result |-> "lastrowid", rowid |-> rowid, db |-> db]

\* a function that returned True, False or None, or let an exception out
ReturnsHr(result, db) == [result |-> result, rowid |-> 0, db |-> db]

\* sqlite3.connect is called before the try block: its exception propagates
add_worker(db, worker_data, fault) ==
    LET id == db.worker_seq + 1
        row == [col \in Range(worker_columns) \cup {"id"} |->
                   IF col = "id" THEN id ELSE DictGet(worker_data, col)]
        tx == [db EXCEPT !.workers = db.workers \cup {row}, !.worker_seq = id]
    IN  IF fault = "connect"
          THEN ReturnsHr("raises", db)
        ELSE IF fault = "execute"
          THEN ReturnsHr("None", Rollback(db, db))
        ELSE IF \E col \in WorkerNotNull : IsNull(col, row[col])
          THEN ReturnsHr("None", Rollback(db, db))
        ELSE IF fault = "commit"
          THEN ReturnsHr("None", Rollback(db, tx))
        ELSE ReturnsRowId(id, tx)

\* update_worker with an UPDATE that sets only the columns worker_data names
update_worker_keeps_absent(db, worker_id, worker_data, fault) ==
    LET Updated(w) == [col \in DOMAIN w |->
                          IF col \in DOMAIN worker_data THEN worker_data[col]
                          ELSE w[col]]
        tx == [db EXCEPT !.workers = {IF w.id = worker_id THEN Updated(w) ELSE w :
                                         w \in db.workers}]
    IN  IF fault = "connect"
          THEN ReturnsHr("raises", db)
        ELSE IF fault = "execute"
          THEN ReturnsHr("False", Rollback(db, db))
        ELSE IF \E w \in tx.workers, col \in WorkerNotNull : IsNull(col, w[col])
          THEN ReturnsHr("False", Rollback(db, db))
        ELSE IF fault = "commit"
          THEN ReturnsHr("False", Rollback(db, tx))
        ELSE ReturnsHr("True", tx)

\* UPDATE workers SET <the eleven columns> = worker_data.get(column) WHERE id = ?
\* a key worker_data lacks is bound as NULL; an id no row has updates nothing and
\* is still a success; sqlite3.connect is called before the try block
update_worker(db, worker_id, worker_data, fault) ==
    LET Updated(w) == [col \in DOMAIN w |->
                          IF col = "id" THEN w.id ELSE DictGet(worker_data, col)]
        tx == [db EXCEPT !.workers = {IF w.id = worker_id THEN Updated(w) ELSE w :
                                         w \in db.workers}]
    IN  IF fault = "connect"
          THEN ReturnsHr("raises", db)
        ELSE IF fault = "execute"
          THEN ReturnsHr("False", Rollback(db, db))
        ELSE IF \E w \in tx.workers, col \in WorkerNotNull : IsNull(col, w[col])
          THEN ReturnsHr("False", Rollback(db, db))
        ELSE IF fault = "commit"
          THEN ReturnsHr("False", Rollback(db, tx))
        ELSE ReturnsHr("True", tx)

\* the connection never runs PRAGMA foreign_keys = ON, and SQLite leaves foreign
\* keys off by default: the ON DELETE CASCADE of attendance and overtime is idle
delete_worker(db, worker_id, fault) ==
    LET foreign_keys == FALSE
        tx == [db EXCEPT
                 !.workers = {w \in db.workers : w.id # worker_id},
                 !.attendance =
                     CascadeWorkerRows(db.attendance, worker_id, foreign_keys),
                 !.overtime =
                     CascadeWorkerRows(db.overtime, worker_id, foreign_keys)]
    IN  IF fault = "connect"
          THEN ReturnsHr("raises", db)
        ELSE IF fault = "execute"
          THEN ReturnsHr("False", Rollback(db, db))
        ELSE IF fault = "commit"
          THEN ReturnsHr("False", Rollback(db, tx))
        ELSE ReturnsHr("True", tx)

\* cursor.executemany(INSERT INTO attendance ... ON CONFLICT DO UPDATE): one
\* statement per record, in list order, inside one transaction; stops at the
\* first statement that raises.  tx.done counts the statements that went through
RECURSIVE ExecuteManyAttendance(_, _, _, _)
ExecuteManyAttendance(records_to_save, i, tx, fault_at) ==
    IF i > Len(records_to_save) \/ tx.error # "none" THEN tx
    ELSE
      LET rec == records_to_save[i]
          row == [col \in Range(attendance_columns) |-> rec[col]]
      IN  IF fault_at = i
            THEN [tx EXCEPT !.error = "OperationalError"]
          ELSE IF \E col \in Range(attendance_columns) : col \notin DOMAIN rec
            THEN [tx EXCEPT !.error = "ProgrammingError"]
          ELSE IF \E col \in AttendanceNotNull : IsNull(col, rec[col])
            THEN [tx EXCEPT !.error = "IntegrityError"]
          ELSE ExecuteManyAttendance(records_to_save, i + 1,
                 [tx EXCEPT !.db.attendance = Upsert(tx.db.attendance, row),
                            !.done = tx.done + 1],
                 fault_at)

\* the transaction of save_attendance_records as it stands when executemany ends
AttendanceTx(db, records_to_save, fault, fault_at) ==
    ExecuteManyAttendance(records_to_save, 1,
                          [db |-> db, error |-> "none", done |-> 0],
                          IF fault = "execute" THEN fault_at ELSE 0)

\* save_attendance_records that keeps what it wrote when a statement fails
save_attendance_records_no_rollback(db, records_to_save, fault, fault_at) ==
    LET tx == AttendanceTx(db, records_to_save, fault, fault_at)
    IN  IF fault = "connect" THEN ReturnsHr("False", db)
        ELSE IF tx.error # "none" THEN ReturnsHr("False", tx.db)
        ELSE IF fault = "commit" THEN ReturnsHr("False", db)
        ELSE ReturnsHr("True", tx.db)

save_attendance_records(db, records_to_save, fault, fault_at) ==
    LET tx == AttendanceTx(db, records_to_save, fault, fault_at)
    IN  IF fault = "connect"
          THEN ReturnsHr("False", db)
        ELSE IF tx.error # "none"
          THEN ReturnsHr("False", Rollback(db, tx.db))
        ELSE IF fault = "commit"
          THEN ReturnsHr("False", Rollback(db, tx.db))
        ELSE ReturnsHr("True", tx.db)

delete_attendance_record(db, worker_id, date_str, fault) ==
    LET tx == [db EXCEPT
                 !.attendance =
                     {r \in db.attendance :
                          ~(r.worker_id = worker_id /\ r.date = date_str)}]
    IN  IF fault \in {"connect", "execute"}
          THEN ReturnsHr("False", CloseConnection(db, db))
        ELSE IF fault = "commit"
          THEN ReturnsHr("False", CloseConnection(db, tx))
        ELSE ReturnsHr("True", tx)

\* sqlite3.connect is called before the try block: its exception propagates
add_ot_record(db, worker_id, date_str, ot_hours, ot_rate, ot_amount, fault) ==
    LET id == db.overtime_seq + 1
        row == [id |-> id, worker_id |-> worker_id, date |-> date_str,
                ot_hours |-> ot_hours, ot_rate |-> ot_rate, ot_amount |-> ot_amount]
        tx == [db EXCEPT !.overtime = db.overtime \cup {row}, !.overtime_seq = id]
    IN  IF fault = "connect"
          THEN ReturnsHr("raises", db)
        ELSE IF fault = "execute"
          THEN ReturnsHr("None", Rollback(db, db))
        ELSE IF \E col \in OvertimeNotNull : IsNull(col, row[col])
          THEN ReturnsHr("None", Rollback(db, db))
        ELSE IF fault = "commit"
          THEN ReturnsHr("None", Rollback(db, tx))
        ELSE ReturnsRowId(id, tx)

----------------------------------------------------------------------------
(* The worker, attendance and overtime functions called directly *)

\* what `last_hr` records of a call: the call, its result, how many attendance
\* and overtime rows the worker had when it was made, and how many statements of
\* the call's transaction had gone through when it ended
CalledHr(op, worker_id, r, written) ==
    [op |-> op, worker_id |-> worker_id, result |-> r.result, rowid |-> r.rowid,
     had_worker |-> \E w \in workers : w.id = worker_id,
     had_attendance |-> Cardinality({a \in attendance : a.worker_id = worker_id}),
     had_overtime |-> Cardinality({o \in overtime : o.worker_id = worker_id}),
     written |-> written]

CommitHr(db) ==
    /\ workers' = db.workers
    /\ worker_seq' = db.worker_seq
    /\ attendance' = db.attendance
    /\ overtime' = db.overtime
    /\ overtime_seq' = db.overtime_seq

\* the list a batch of record inputs stands for
RecordsToSave(b) ==
    [k \in DOMAIN b |->
        [worker_id |-> b[k][1], date |-> b[k][2]] @@ AttendanceInputs[b[k][3]]]

\* the record of the list that was saved last for a key, as <<record>>; <<>> when
\* the list has none
LastOfKey(records_to_save, key) ==
    LET at == {k \in DOMAIN records_to_save :
                  /\ records_to_save[k].worker_id = key[1]
                  /\ records_to_save[k].date = key[2]}
    IN  IF at = {} THEN <<>>
        ELSE <<records_to_save[CHOOSE k \in at : \A j \in at : j <= k]>>

AddWorker ==
    \E i \in DOMAIN WorkerInputs, fault \in FaultPoints :
      LET r == add_worker(HrDb, WorkerInputs[i], fault)
      IN  /\ worker_seq < MaxWorkers
          /\ CommitHr(r.db)
          /\ last_hr' = CalledHr("add_worker", 0, r, 0)
          /\ Uses(ConnectBeforeTry(fault))
          /\ UNCHANGED <<desc_vars, page_vars, billing_vars, last, last_saved, ui_vars>>

UpdateWorker ==
    \E worker_id \in WorkerIds, i \in DOMAIN UpdateWorkerInputs,
       fault \in FaultPoints :
      LET r == update_worker(HrDb, worker_id, UpdateWorkerInputs[i], fault)
      IN  /\ CommitHr(r.db)
          /\ last_hr' = CalledHr("update_worker", worker_id, r, 0)
          /\ Uses(ConnectBeforeTry(fault))
          /\ UNCHANGED <<desc_vars, page_vars, billing_vars, last, last_saved, ui_vars>>

DeleteWorker ==
    \E worker_id \in WorkerIds, fault \in FaultPoints :
      LET r == delete_worker(HrDb, worker_id, fault)
      IN  /\ CommitHr(r.db)
          /\ last_hr' = CalledHr("delete_worker", worker_id, r, 0)
          /\ Uses(ConnectBeforeTry(fault))
          /\ UNCHANGED <<desc_vars, page_vars, billing_vars, last, last_saved, ui_vars>>

SaveAttendanceRecords(batches, faults) ==
    \E b \in batches :
      \E fault \in BatchFaults(b) \cap faults :
        \E fault_at \in FaultAts(fault, Len(b)) :
          LET records_to_save == RecordsToSave(b)
              r == save_attendance_records(HrDb, records_to_save, fault, fault_at)
              tx == AttendanceTx(HrDb, records_to_save, fault, fault_at)
          IN  /\ CommitHr(r.db)
              /\ last_hr' = CalledHr("save_attendance_records", 0, r,
                                     IF fault = "connect" THEN 0 ELSE tx.done)
              /\ last_saved' =
                   IF r.result = "True"
                   THEN [key \in DOMAIN last_saved |->
                           IF LastOfKey(records_to_save, key) # <<>>
                           THEN LastOfKey(records_to_save, key)
                           ELSE last_saved[key]]
                   ELSE last_saved
              /\ Uses(ConnectInsideTry(fault))
              /\ UNCHANGED <<desc_vars, page_vars, billing_vars, last, ui_vars>>

DeleteAttendanceRecord ==
    \E worker_id \in WorkerIds, date_str \in Dates, fault \in FaultPoints :
      LET r == delete_attendance_record(HrDb, worker_id, date_str, fault)
      IN  /\ CommitHr(r.db)
          /\ last_hr' = CalledHr("delete_attendance_record", worker_id, r, 0)
          /\ last_saved' =
               IF r.result = "True"
               THEN [last_saved EXCEPT ![<<worker_id, date_str>>] = <<>>]
               ELSE last_saved
          /\ Uses(ConnectInsideTry(fault))
          /\ UNCHANGED <<desc_vars, page_vars, billing_vars, last, ui_vars>>

AddOtRecord ==
    \E worker_id \in WorkerIds, date_str \in Dates, i \in DOMAIN OtInputs,
       fault \in FaultPoints :
      LET ot == OtInputs[i]
          r == add_ot_record(HrDb, worker_id, date_str, ot.ot_hours, ot.ot_rate,
                             ot.ot_amount, fault)
      IN  /\ overtime_seq < MaxOtRecords
          /\ CommitHr(r.db)
          /\ last_hr' = CalledHr("add_ot_record", worker_id, r, 0)
          /\ Uses(ConnectBeforeTry(fault))
          /\ UNCHANGED <<desc_vars, page_vars, billing_vars, last, last_saved, ui_vars>>

\* after database_utils.init_db() on a fresh file: no worker, attendance or
\* overtime row, and no AUTOINCREMENT id handed out
InitHr ==
    /\ workers = {}
    /\ worker_seq = 0
    /\ attendance = {}
    /\ overtime = {}
    /\ overtime_seq = 0
    /\ last_saved = [key \in WorkerIds \X Dates |-> <<>>]
    /\ last_hr = [op |-> "init_db", worker_id |-> 0, result |-> "None", rowid |-> 0,
                  had_worker |-> FALSE, had_attendance |-> 0, had_overtime |-> 0,
                  written |-> 0]

----------------------------------------------------------------------------
(* The store called directly, as billing_db's own tests call it *)

\* what `last` records of a call on invoice_no: the call, its result, what the
\* tables held for that invoice_no when it was made, and how many rows the call's
\* transaction had written when it ended
Called(op, invoice_no, result, written) ==
    [op |-> op, invoice_no |-> invoice_no, result |-> result,
     had_header |-> HeaderPrimaryKeyTaken(invoice_headers, invoice_no),
     had_items |-> Cardinality({r \in invoice_line_items :
                                    r.invoice_no = invoice_no}),
     written |-> written]

Commit(db) ==
    /\ invoice_headers' = db.invoice_headers
    /\ invoice_line_items' = db.invoice_line_items

\* the header_data of a call: payload i under invoice number n
HeaderData(n, i) == [invoice_no |-> n] @@ HeaderInputs[i]

\* the list a batch of item indices stands for
LineItemsList(invoice_no, b) ==
    [k \in DOMAIN b |-> [invoice_no |-> invoice_no] @@ ItemInputs[b[k]]]

AddInvoiceHeader(inputs, faults) ==
    \E n \in InvoiceNos, i \in inputs, fault \in faults :
      LET r == add_invoice_header(BillingDb, HeaderData(n, i), fault)
      IN  /\ Commit(r.db)
          /\ last' = Called("add_invoice_header", n, r.result, 0)
          /\ Uses(ConnectInsideTry(fault))
          /\ UNCHANGED <<hr_vars, desc_vars, page_vars, ui_vars>>

AddInvoiceLineItemsBatch(batches, faults) ==
    \E n \in InvoiceNos, b \in batches :
      \E fault \in BatchFaults(b) \cap faults :
        \E fault_at \in FaultAts(fault, Len(b)) :
          LET list == LineItemsList(n, b)
              r == add_invoice_line_items_batch(BillingDb, list, fault, fault_at)
              tx == LineItemsTx(BillingDb, list, fault, fault_at)
          IN  /\ Commit(r.db)
              /\ last' = Called("add_invoice_line_items_batch", n, r.result,
                                IF fault = "connect" THEN 0
                                ELSE Cardinality(tx.db.invoice_line_items)
                                       - Cardinality(invoice_line_items))
              /\ Uses(ConnectInsideTry(fault))
              /\ UNCHANGED <<hr_vars, desc_vars, page_vars, ui_vars>>

DeleteInvoiceHeader ==
    \E n \in InvoiceNos, fault \in FaultPoints :
      LET r == delete_invoice_header(BillingDb, n, fault)
      IN  /\ Commit(r.db)
          /\ last' = Called("delete_invoice_header", n, r.result, 0)
          /\ Uses(ConnectInsideTry(fault))
          /\ UNCHANGED <<hr_vars, desc_vars, page_vars, ui_vars>>

UpdateInvoiceHeader ==
    \E n \in InvoiceNos, i \in DOMAIN UpdateInputs, fault \in FaultPoints :
      LET r == update_invoice_header(BillingDb, n, UpdateInputs[i], fault)
      IN  /\ Commit(r.db)
          /\ last' = Called("update_invoice_header", n, r.result, 0)
          /\ Uses(ConnectInsideTry(fault))
          /\ UNCHANGED <<hr_vars, desc_vars, page_vars, ui_vars>>

DeleteLineItemsForInvoice ==
    \E n \in InvoiceNos, fault \in FaultPoints :
      LET r == delete_line_items_for_invoice(BillingDb, n, fault)
      IN  /\ Commit(r.db)
          /\ last' = Called("delete_line_items_for_invoice", n, r.result, 0)
          /\ Uses(ConnectInsideTry(fault))
          /\ UNCHANGED <<hr_vars, desc_vars, page_vars, ui_vars>>

----------------------------------------------------------------------------
(* BillingEntryPage *)

MaxLineItems == 2
\* invoices are saved while the digits of their number spell no more than this
MaxInvoiceNumber == 2

\* what the user may type into the invoice number entry
TypedInvoiceNos == {<<>>, <<"0", "0", "2", " ">>}

\* float(text): <<value>>, or <<>> for a ValueError
Float(text) ==
    CASE text = "1" -> <<1>>
      [] text = "0" -> <<0>>
      [] text = "18" -> <<18>>
      [] text = "50" -> <<50>>
      [] OTHER -> <<>>

\* what the header entries may hold when Save is pressed
HeaderFormInputs ==
    [date : {"2024-07-01", ""}, customer_name : {"Acme", ""},
     gst_percentage_str : {"", "abc"}]

\* what the line item entries may hold when Add Item is pressed
ItemFormInputs ==
    [item_desc : {"Item A", ""}, quantity_str : {"1", "0", "abc"},
     rate_str : {"50"}]

\* a total that counts the first line item only
SumAmountsFirstOnly(items) ==
    IF Len(items) = 0 THEN 0 ELSE items[1].amount

RECURSIVE SumAmounts(_)
SumAmounts(items) ==
    IF Len(items) = 0 THEN 0 ELSE items[1].amount + SumAmounts(Tail(items))

\* _generate_next_invoice_no without its default: no last number, no suggestion
_generate_next_invoice_no_no_default(db, fault) ==
    LET last_invoice_no == get_last_invoice_no(db, fault)
    IN  IF last_invoice_no = <<>> \/ last_invoice_no[1] = <<>> THEN <<>>
        ELSE LET digits == DigitsOf(last_invoice_no[1])
             IN  zfill(IntToStr(ParseInt(digits) + 1), Len(digits))

_generate_next_invoice_no(db, fault) ==
    LET last_invoice_no == get_last_invoice_no(db, fault)
        last_invoice_no_str == last_invoice_no[1]
        digits_at == {i \in DOMAIN last_invoice_no_str :
                         IsDigit(last_invoice_no_str[i])}
        match == CHOOSE i \in digits_at : \A j \in digits_at : i <= j
        prefix == SubSeq(last_invoice_no_str, 1, match - 1)
        numeric_part_str ==
            SubSeq(last_invoice_no_str, match, Len(last_invoice_no_str))
    IN  IF last_invoice_no = <<>> \/ last_invoice_no_str = <<>>
          THEN <<"0", "0", "1">>
        ELSE IF digits_at # {} /\ IsDigitStr(numeric_part_str)
          THEN prefix \o zfill(IntToStr(ParseInt(numeric_part_str) + 1),
                               Len(numeric_part_str))
        ELSE IF IsDigitStr(last_invoice_no_str)
          THEN zfill(IntToStr(ParseInt(last_invoice_no_str) + 1),
                     Len(last_invoice_no_str))
        ELSE <<"0", "0", "1">>

\* what `last_ui` records of a run of Save Invoice: the flow, the invoice number
\* it worked on, what each store call returned ("-" when it was not made), and
\* the message box shown
Handled(op, invoice_no, header_result, items_result, delete_result, message) ==
    [op |-> op, invoice_no |-> invoice_no, header_result |-> header_result,
     items_result |-> items_result, delete_result |-> delete_result,
     message |-> message,
     had_header |-> HeaderPrimaryKeyTaken(invoice_headers, invoice_no)]

\* the user edits the invoice number entry
TypeInvoiceNo ==
    /\ ~edit_mode
    /\ \E text \in TypedInvoiceNos : invoice_no_var' = text
    /\ Uses(NoConnection)
    /\ UNCHANGED <<billing_vars, last, hr_vars, desc_vars, page_vars, line_items_data, next_line_no,
                   edit_mode, editing_invoice_no, selected_invoice_no,
                   history_tree, last_ui>>

add_line_item_to_treeview ==
    \E form \in ItemFormInputs :
      LET qty == Float(form.quantity_str)
          rate == Float(form.rate_str)
          current_line_no == next_line_no
          item_data == [line_no |-> current_line_no,
                        item_description |-> form.item_desc,
                        part_no |-> "", hsn_code |-> "",
                        quantity |-> qty[1], rate |-> rate[1],
                        amount |-> qty[1] * rate[1]]
          rejected ==
              \/ form.item_desc = "" \/ form.quantity_str = "" \/ form.rate_str = ""
              \/ qty = <<>> \/ rate = <<>>
              \/ qty[1] <= 0 \/ rate[1] < 0
      IN  /\ Len(line_items_data) < MaxLineItems
          /\ IF rejected
               THEN UNCHANGED <<line_items_data, next_line_no>>
               ELSE /\ line_items_data' = Append(line_items_data, item_data)
                    /\ next_line_no' = next_line_no + 1
          /\ Uses(NoConnection)
          /\ UNCHANGED <<billing_vars, last, hr_vars, desc_vars, page_vars, invoice_no_var, edit_mode,
                         editing_invoice_no, selected_invoice_no, history_tree,
                         last_ui>>

\* _clear_form_and_reset followed by _load_billing_history, on the tables db
ClearFormAndReloadHistory(db, fault) ==
    /\ invoice_no_var' = _generate_next_invoice_no(db, fault)
    /\ line_items_data' = <<>>
    /\ next_line_no' = 1
    /\ edit_mode' = FALSE
    /\ editing_invoice_no' = <<>>
    /\ selected_invoice_no' = <<>>
    /\ history_tree' = {h.invoice_no : h \in get_all_invoice_headers(db, fault)}

\* a handler that returned before it touched the form
FormStays ==
    UNCHANGED <<invoice_no_var, line_items_data, next_line_no, edit_mode,
                editing_invoice_no, selected_invoice_no, history_tree>>

\* a flow that goes on unless the header insert answered False
is_False(save_header_result) == save_header_result = "False"

\* `if save_header_result is not True:` ("DUPLICATE" and False both stop the flow)
is_not_True(save_header_result) == save_header_result # "True"

_create_new_invoice_logic ==
    \E form \in HeaderFormInputs, header_fault \in {"none", "execute"},
       items_fault \in {"none", "execute"}, delete_fault \in {"none", "execute"},
       read_fault \in {"none", "execute"} :
      \E items_fault_at \in FaultAts(items_fault, Len(line_items_data)) :
        LET invoice_no == Strip(invoice_no_var)
            gst_percentage == IF form.gst_percentage_str = "" THEN <<0>>
                              ELSE Float(form.gst_percentage_str)
            header_data ==
                [invoice_no |-> invoice_no, date |-> form.date,
                 customer_name |-> form.customer_name,
                 total_amount |-> SumAmounts(line_items_data),
                 gst_percentage |-> gst_percentage[1],
                 payment_method |-> "Cash", po_number |-> "",
                 grn_date_from |-> NULL, grn_date_to |-> NULL]
            save_header_result == add_invoice_header(BillingDb, header_data,
                                                     header_fault)
            line_items_for_db ==
                [k \in DOMAIN line_items_data |->
                    [invoice_no |-> invoice_no] @@ line_items_data[k]]
            items == add_invoice_line_items_batch(save_header_result.db,
                         line_items_for_db, items_fault, items_fault_at)
            deleted == delete_invoice_header(items.db, invoice_no, delete_fault)
            op == "_create_new_invoice_logic"
        IN  /\ ~edit_mode
            /\ ParseInt(DigitsOf(invoice_no)) <= MaxInvoiceNumber
            /\ IF \/ invoice_no = <<>> \/ form.date = "" \/ form.customer_name = ""
                  \/ line_items_data = <<>>
                  \/ gst_percentage = <<>>
                 THEN /\ last_ui' = Handled(op, invoice_no, "-", "-", "-",
                                            "Validation Error")
                      /\ FormStays
                      /\ Uses(NoConnection)
                      /\ UNCHANGED billing_vars
               ELSE IF is_not_True(save_header_result.result)
                 THEN /\ last_ui' = Handled(op, invoice_no,
                             save_header_result.result, "-", "-",
                             IF save_header_result.result = "DUPLICATE"
                             THEN "Duplicate Invoice" ELSE "Database Error")
                      /\ FormStays
                      /\ Uses(ConnectInsideTry(header_fault))
                      /\ Commit(save_header_result.db)
               ELSE IF items.result # "True"
                 THEN /\ last_ui' = Handled(op, invoice_no,
                             save_header_result.result, items.result,
                             deleted.result, "Database Error")
                      /\ FormStays
                      /\ Uses(Plus(ConnectInsideTry(header_fault),
                                   Plus(ConnectInsideTry(items_fault),
                                        ConnectInsideTry(delete_fault))))
                      /\ Commit(deleted.db)
               ELSE /\ last_ui' = Handled(op, invoice_no,
                           save_header_result.result, "True", "-", "Success")
                    /\ ClearFormAndReloadHistory(items.db, read_fault)
                    /\ Uses(Plus(Plus(ConnectInsideTry(header_fault),
                                      ConnectInsideTry(items_fault)),
                                 Plus(get_last_invoice_no_connections(read_fault),
                                      ConnectInsideTry(read_fault))))
                    /\ Commit(items.db)
            /\ UNCHANGED <<last, hr_vars, desc_vars, page_vars>>

\* BillingEntryPage(): the page is built on the tables as they are
__init__ ==
    \E fault \in ReadFaultPoints :
      /\ ClearFormAndReloadHistory(BillingDb, fault)
      /\ last_ui' = Handled("__init__", <<>>, "-", "-", "-",
                            IF get_last_invoice_no(BillingDb, fault) # <<>>
                            THEN "last: str"
                            ELSE IF invoice_headers = {}
                            THEN "last: None, no invoice"
                            ELSE "last: None, storage error")
      /\ Uses(Plus(get_last_invoice_no_connections(fault), ConnectInsideTry(fault)))
      /\ UNCHANGED <<billing_vars, last, hr_vars, desc_vars, page_vars>>

\* invoice numbers as billing_db's tests store them
NumberingInvoiceNos ==
    {<<"1">>, <<"0", "0", "2">>, <<"1", "0">>, <<"I", "N", "V", "0", "0", "5">>,
     <<"1", "0", "0">>, <<"9">>}

StoreInvoiceNoOf(nos) ==
    \E n \in nos :
      LET r == add_invoice_header(BillingDb, HeaderData(n, 2), "none")
      IN  /\ Commit(r.db)
          /\ last' = Called("add_invoice_header", n, r.result, 0)
          /\ Uses(ConnectInsideTry("none"))
          /\ UNCHANGED <<hr_vars, desc_vars, page_vars, ui_vars>>

RemoveInvoiceNoOf(nos) ==
    \E n \in nos :
      LET r == delete_invoice_header(BillingDb, n, "none")
      IN  /\ Commit(r.db)
          /\ last' = Called("delete_invoice_header", n, r.result, 0)
          /\ Uses(ConnectInsideTry("none"))
          /\ UNCHANGED <<hr_vars, desc_vars, page_vars, ui_vars>>

StoreInvoiceNo == StoreInvoiceNoOf(NumberingInvoiceNos)

RemoveInvoiceNo == RemoveInvoiceNoOf(NumberingInvoiceNos)

\* invoice numbers with a sign or a separator, as the free-text entry takes them
SignedInvoiceNos ==
    {<<"-", "1">>, <<"-", "2">>, <<"-", "3">>, <<"7">>, <<"7", "-", "1">>}

StoreSignedInvoiceNo == StoreInvoiceNoOf(SignedInvoiceNos)

RemoveSignedInvoiceNo == RemoveInvoiceNoOf(SignedInvoiceNos)

\* a row of the billing history is clicked
_on_history_select ==
    /\ \E invoice_no \in history_tree : selected_invoice_no' = <<invoice_no>>
    /\ Uses(NoConnection)
    /\ UNCHANGED <<billing_vars, last, hr_vars, desc_vars, page_vars,
                   invoice_no_var, line_items_data, next_line_no, edit_mode,
                   editing_invoice_no, history_tree, last_ui>>

\* a row as the edit form keeps it: the stored row without its invoice_no
item_ui(item_db) ==
    [line_no |-> item_db.line_no, item_description |-> item_db.item_description,
     part_no |-> item_db.part_no, hsn_code |-> item_db.hsn_code,
     quantity |-> item_db.quantity, rate |-> item_db.rate,
     amount |-> item_db.amount]

RECURSIVE NextLineNoAfter(_)
NextLineNoAfter(items) ==
    IF Len(items) = 0 THEN 1
    ELSE LET rest == NextLineNoAfter(Tail(items))
         IN  IF items[1].line_no + 1 > rest THEN items[1].line_no + 1 ELSE rest

\* Edit Selected: both reads answer None / [] when the store fails
_edit_selected_invoice ==
    \E header_fault \in {"none", "execute"}, items_fault \in {"none", "execute"},
       read_fault \in {"none", "execute"} :
      LET invoice_no == selected_invoice_no[1]
          header_data == IF header_fault = "none"
                         THEN get_invoice_header_by_no(BillingDb, invoice_no)
                         ELSE <<>>
          line_items == IF items_fault = "none"
                        THEN get_line_items_for_invoice(BillingDb, invoice_no)
                        ELSE <<>>
          loaded == [k \in DOMAIN line_items |-> item_ui(line_items[k])]
          op == "_edit_selected_invoice"
      IN  /\ selected_invoice_no # <<>>
          /\ IF header_data = <<>>
               THEN \* _clear_form_and_reset
                    /\ invoice_no_var' = _generate_next_invoice_no(BillingDb,
                                                                   read_fault)
                    /\ line_items_data' = <<>>
                    /\ next_line_no' = 1
                    /\ edit_mode' = FALSE
                    /\ editing_invoice_no' = <<>>
                    /\ last_ui' = Handled(op, invoice_no, "-", "-", "-", "Error")
                    /\ Uses(Plus(Plus(ConnectInsideTry(header_fault),
                                      ConnectInsideTry(items_fault)),
                                 get_last_invoice_no_connections(read_fault)))
             ELSE /\ invoice_no_var' = header_data[1].invoice_no
                  /\ line_items_data' = loaded
                  /\ next_line_no' = NextLineNoAfter(loaded)
                  /\ edit_mode' = TRUE
                  /\ editing_invoice_no' = <<invoice_no>>
                  /\ last_ui' = Handled(op, invoice_no, "-", "-", "-", "Edit Invoice")
                  /\ Uses(Plus(ConnectInsideTry(header_fault),
                               ConnectInsideTry(items_fault)))
          /\ UNCHANGED <<billing_vars, last, hr_vars, desc_vars, page_vars,
                         selected_invoice_no, history_tree>>

\* Delete Selected, with the answer to the confirmation box
_delete_selected_invoice ==
    \E confirm \in BOOLEAN, delete_fault \in {"none", "execute"},
       read_fault \in {"none", "execute"} :
      LET invoice_no == selected_invoice_no[1]
          deleted == delete_invoice_header(BillingDb, invoice_no, delete_fault)
          op == "_delete_selected_invoice"
      IN  /\ selected_invoice_no # <<>>
          /\ selected_invoice_no' = <<>>
          /\ IF ~confirm
               THEN /\ last_ui' = Handled(op, invoice_no, "-", "-", "-", "Declined")
                    /\ Uses(NoConnection)
                    /\ UNCHANGED <<billing_vars, history_tree>>
             ELSE IF deleted.result = "True"
               THEN /\ last_ui' = Handled(op, invoice_no, "-", "-", "True", "Success")
                    /\ history_tree' =
                           {h.invoice_no :
                               h \in get_all_invoice_headers(deleted.db, read_fault)}
                    /\ Uses(Plus(ConnectInsideTry(delete_fault),
                                 ConnectInsideTry(read_fault)))
                    /\ Commit(deleted.db)
             ELSE /\ last_ui' = Handled(op, invoice_no, "-", "-", deleted.result,
                                        "Error")
                  /\ Uses(ConnectInsideTry(delete_fault))
                  /\ Commit(deleted.db)
                  /\ UNCHANGED history_tree
          /\ UNCHANGED <<last, hr_vars, desc_vars, page_vars, invoice_no_var,
                         line_items_data, next_line_no, edit_mode,
                         editing_invoice_no>>

\* an update by per-row replacement: each item of the form replaces the stored
\* row of its line_no, and the stored rows of other line numbers stay
_update_invoice_logic_per_row(db, invoice_no, items_data, form, header_fault, delete_fault, items_fault, items_fault_at) ==
    LET gst_percentage == IF form.gst_percentage_str = "" THEN <<0>>
                          ELSE Float(form.gst_percentage_str)
        updated_header_data ==
            [date |-> form.date, customer_name |-> form.customer_name,
             total_amount |-> SumAmounts(items_data),
             gst_percentage |-> gst_percentage[1],
             payment_method |-> "Cash", po_number |-> "",
             grn_date_from |-> NULL, grn_date_to |-> NULL]
        header == update_invoice_header(db, invoice_no, updated_header_data,
                                        header_fault)
        replaced == {r \in header.db.invoice_line_items :
                        /\ r.invoice_no = invoice_no
                        /\ \E k \in DOMAIN items_data :
                               items_data[k].line_no = r.line_no}
        rows == {[invoice_no |-> invoice_no] @@ items_data[k] :
                    k \in DOMAIN items_data}
        tx == [header.db EXCEPT
                 !.invoice_line_items = (@ \ replaced) \cup rows]
        answer(header_result, delete_result, items_result, message, left) ==
            [header_result |-> header_result, delete_result |-> delete_result,
             items_result |-> items_result, message |-> message, db |-> left]
    IN  IF \/ form.date = "" \/ form.customer_name = ""
           \/ items_data = <<>> \/ gst_percentage = <<>>
          THEN answer("-", "-", "-", "Validation Error", db)
        ELSE IF header.result # "True"
          THEN answer(header.result, "-", "-", "Database Error", header.db)
        ELSE IF delete_fault # "none" \/ items_fault # "none"
          THEN answer("True", "True", "False", "Database Error", header.db)
        ELSE answer("True", "True", "True", "Invoice Updated", tx)

\* the store calls of _update_invoice_logic on the tables db, for the invoice
\* being edited, the items of the form and the header entries: what each call
\* returned ("-" when it was not made), the message box and the tables left
_update_invoice_logic_calls(db, invoice_no, items_data, form, header_fault, delete_fault, items_fault, items_fault_at) ==
    LET gst_percentage == IF form.gst_percentage_str = "" THEN <<0>>
                          ELSE Float(form.gst_percentage_str)
        updated_header_data ==
            [date |-> form.date, customer_name |-> form.customer_name,
             total_amount |-> SumAmounts(items_data),
             gst_percentage |-> gst_percentage[1],
             payment_method |-> "Cash", po_number |-> "",
             grn_date_from |-> NULL, grn_date_to |-> NULL]
        header == update_invoice_header(db, invoice_no, updated_header_data,
                                        header_fault)
        deleted == delete_line_items_for_invoice(header.db, invoice_no,
                                                 delete_fault)
        line_items_for_db ==
            [k \in DOMAIN items_data |->
                [invoice_no |-> invoice_no] @@ items_data[k]]
        items == add_invoice_line_items_batch(deleted.db, line_items_for_db,
                                              items_fault, items_fault_at)
        answer(header_result, delete_result, items_result, message, left) ==
            [header_result |-> header_result, delete_result |-> delete_result,
             items_result |-> items_result, message |-> message, db |-> left]
    IN  IF \/ form.date = "" \/ form.customer_name = ""
           \/ items_data = <<>> \/ gst_percentage = <<>>
          THEN answer("-", "-", "-", "Validation Error", db)
        ELSE IF header.result # "True"
          THEN answer(header.result, "-", "-", "Database Error", header.db)
        ELSE IF deleted.result # "True"
          THEN answer("True", deleted.result, "-", "Database Error", deleted.db)
        ELSE IF items.result # "True"
          THEN answer("True", "True", items.result, "Database Error", items.db)
        ELSE answer("True", "True", "True", "Invoice Updated", items.db)

\* the connections the calls that were made have opened and closed
_update_invoice_logic_connections(calls, header_fault, delete_fault, items_fault) ==
    Plus(IF calls.header_result = "-" THEN NoConnection
         ELSE ConnectInsideTry(header_fault),
         Plus(IF calls.delete_result = "-" THEN NoConnection
              ELSE ConnectInsideTry(delete_fault),
              IF calls.items_result = "-" THEN NoConnection
              ELSE ConnectInsideTry(items_fault)))

_update_invoice_logic ==
    \E form \in HeaderFormInputs, header_fault \in {"none", "execute"},
       delete_fault \in {"none", "execute"}, items_fault \in {"none", "execute"},
       read_fault \in {"none", "execute"} :
      \E items_fault_at \in FaultAts(items_fault, Len(line_items_data)) :
        LET invoice_no == editing_invoice_no[1]
            calls == _update_invoice_logic_calls(BillingDb, invoice_no,
                         line_items_data, form, header_fault, delete_fault,
                         items_fault, items_fault_at)
            connections == _update_invoice_logic_connections(calls, header_fault,
                               delete_fault, items_fault)
        IN  /\ edit_mode
            /\ editing_invoice_no # <<>>
            /\ last_ui' = Handled("_update_invoice_logic", invoice_no,
                                  calls.header_result, calls.items_result,
                                  calls.delete_result, calls.message)
            /\ Commit(calls.db)
            /\ IF calls.message = "Invoice Updated"
                 THEN /\ ClearFormAndReloadHistory(calls.db, read_fault)
                      /\ Uses(Plus(connections,
                               Plus(get_last_invoice_no_connections(read_fault),
                                    ConnectInsideTry(read_fault))))
               ELSE /\ FormStays
                    /\ Uses(connections)
            /\ UNCHANGED <<last, hr_vars, desc_vars, page_vars>>

\* Save Invoice: the update flow in edit mode, the create flow otherwise
save_invoice ==
    \/ _update_invoice_logic
    \/ _create_new_invoice_logic

\* BillingEntryPage() on a fresh database
InitUi ==
    /\ invoice_no_var = <<"0", "0", "1">>
    /\ line_items_data = <<>>
    /\ next_line_no = 1
    /\ edit_mode = FALSE
    /\ editing_invoice_no = <<>>
    /\ selected_invoice_no = <<>>
    /\ history_tree = {}
    /\ last_ui = [op |-> "__init__", invoice_no |-> <<>>, header_result |-> "-",
                  items_result |-> "-", delete_result |-> "-", message |-> "-",
                  had_header |-> FALSE]

----------------------------------------------------------------------------
(* database_utils.init_db and the description functions of data_entry *)

\* the CREATE TABLE IF NOT EXISTS statements of init_db, in their order
TableNames == <<"description_master", "invoice_headers", "invoice_line_items",
                "workers", "overtime", "attendance">>

\* the rows init_db seeds an empty description_master with
sample_descriptions == <<
    [description |-> "Paint Coating", customer_part_no |-> "PC-001",
     sac_code |-> "998873", rate |-> 100, po_no |-> "PO001/A"],
    [description |-> "Powder Coating", customer_part_no |-> "PC-002",
     sac_code |-> "998874", rate |-> 120, po_no |-> "PO002/B"],
    [description |-> "Surface Treatment", customer_part_no |-> "ST-001",
     sac_code |-> "998875", rate |-> 80, po_no |-> "PO003/C"] >>

\* where init_db can fail: "create" is the CREATE TABLE of table fault_at,
\* "execute" the COUNT(*) or the seeding INSERT, "commit" the commit of the seed
InitDbFaults == {"none", "connect", "create", "execute", "commit"}

\* the data dictionaries insert_description_to_db is called with
DescriptionInputs ==
    {("Description" :> d) @@ ("Customer Part No." :> "AN-001")
        @@ ("SAC Code" :> "998876") @@ ("Rate" :> rate) @@ ("PO No" :> "PO004/D") :
       d \in {"Paint Coating", "Anodizing", NULL}, rate \in {"50", "abc"}}

\* the file as it is now
DescDb ==
    [tables |-> tables, description_master |-> description_master,
     description_seq |-> description_seq]

\* a description_master without its UNIQUE constraint
DescriptionNoUniqueConstraint(rows, description) == FALSE

\* description TEXT UNIQUE NOT NULL: the description is already in a row
DescriptionUniqueTaken(rows, description) ==
    \E r \in rows : r.description = description

\* init_db that seeds without looking at COUNT(*)
init_db_seeds_always(db, fault, fault_at) ==
    LET created == IF fault = "create" THEN {TableNames[k] : k \in 1..(fault_at - 1)}
                   ELSE Range(TableNames)
        with_tables == [db EXCEPT !.tables = db.tables \cup created]
        seeded == [with_tables EXCEPT
                     !.description_master =
                         @ \cup {sample_descriptions[k]
                                   @@ [id |-> db.description_seq + k] :
                                 k \in DOMAIN sample_descriptions},
                     !.description_seq = @ + Len(sample_descriptions)]
    IN  IF fault = "connect" THEN [result |-> "raises", db |-> db]
        ELSE IF fault \in {"create", "execute", "commit"}
          THEN [result |-> "raises", db |-> with_tables]
        ELSE [result |-> "None", db |-> seeded]

\* every CREATE TABLE IF NOT EXISTS is committed as it runs; the sample rows are
\* inserted by one executemany and one commit, only when COUNT(*) is 0.  No
\* exception is caught: a failing step ends the call, and what was not committed
\* is lost with the connection
init_db(db, fault, fault_at) ==
    LET created == IF fault = "create" THEN {TableNames[k] : k \in 1..(fault_at - 1)}
                   ELSE Range(TableNames)
        with_tables == [db EXCEPT !.tables = db.tables \cup created]
        seeded == [with_tables EXCEPT
                     !.description_master =
                         @ \cup {sample_descriptions[k]
                                   @@ [id |-> db.description_seq + k] :
                                 k \in DOMAIN sample_descriptions},
                     !.description_seq = @ + Len(sample_descriptions)]
    IN  IF fault = "connect" THEN [result |-> "raises", db |-> db]
        ELSE IF fault \in {"create", "execute"}
          THEN [result |-> "raises", db |-> with_tables]
        ELSE IF db.description_master # {}
          THEN [result |-> "None", db |-> with_tables]
        ELSE IF fault = "commit"
          THEN [result |-> "raises", db |-> with_tables]
        ELSE [result |-> "None", db |-> seeded]

\* the result is the title of the messagebox shown ("None" when none is shown).
\* float(data["Rate"]) is evaluated before the statement runs; sqlite3.connect
\* is called before the try block
insert_description_to_db(db, data, fault) ==
    LET id == db.description_seq + 1
        rate == Float(data["Rate"])
        row == [id |-> id, description |-> data["Description"],
                customer_part_no |-> data["Customer Part No."],
                sac_code |-> data["SAC Code"], rate |-> rate[1],
                po_no |-> data["PO No"]]
        tx == [db EXCEPT !.description_master = @ \cup {row},
                         !.description_seq = id]
    IN  IF fault = "connect"
          THEN [result |-> "raises", db |-> db]
        ELSE IF rate = <<>>
          THEN [result |-> "Invalid Input", db |-> db]
        ELSE IF fault = "execute" \/ "description_master" \notin db.tables
          THEN [result |-> "Database Error", db |-> db]
        ELSE IF \/ IsNull("description", data["Description"])
                \/ DescriptionUniqueTaken(db.description_master, data["Description"])
          THEN [result |-> "Error", db |-> db]
        ELSE IF fault = "commit"
          THEN [result |-> "Database Error", db |-> CloseConnection(db, tx)]
        ELSE [result |-> "None", db |-> tx]

\* what `last_desc` records of a call: the call, its outcome, and what the file
\* held when it was made
CalledDesc(op, description, result) ==
    [op |-> op, description |-> description, outcome |-> result,
     was_stored |-> DescriptionUniqueTaken(description_master, description),
     was_empty |-> description_master = {},
     had_tables |-> tables]

CommitDesc(db) ==
    /\ tables' = db.tables
    /\ description_master' = db.description_master
    /\ description_seq' = db.description_seq

InitDb ==
    \E fault \in InitDbFaults, fault_at \in DOMAIN TableNames :
      LET r == init_db(DescDb, fault, fault_at)
      IN  /\ fault # "create" => fault_at = 1
          /\ CommitDesc(r.db)
          /\ last_desc' = CalledDesc("init_db", NULL, r.result)
          /\ StartsWith(init_db_connections(fault, r.result))
          /\ UNCHANGED <<billing_vars, last, hr_vars, ui_vars, page_vars>>

InsertDescriptionToDb ==
    \E data \in DescriptionInputs, fault \in FaultPoints :
      LET r == insert_description_to_db(DescDb, data, fault)
      IN  /\ CommitDesc(r.db)
          /\ last_desc' = CalledDesc("insert_description_to_db",
                                     data["Description"], r.result)
          /\ Uses(ConnectBeforeTry(fault))
          /\ UNCHANGED <<billing_vars, last, hr_vars, ui_vars, page_vars>>

\* a database file on which init_db has not run yet
NoSchema ==
    /\ tables = {}
    /\ description_master = {}
    /\ description_seq = 0
    /\ last_desc = [op |-> "-", description |-> NULL, outcome |-> "None",
                    was_stored |-> FALSE, was_empty |-> TRUE, had_tables |-> {}]

\* after database_utils.init_db() on a fresh file
InitDescriptions ==
    /\ tables = Range(TableNames)
    /\ description_master =
         {sample_descriptions[k] @@ [id |-> k] : k \in DOMAIN sample_descriptions}
    /\ description_seq = Len(sample_descriptions)
    /\ last_desc = [op |-> "init_db", description |-> NULL, outcome |-> "None",
                    was_stored |-> FALSE, was_empty |-> TRUE, had_tables |-> {}]

----------------------------------------------------------------------------
(* ot_db range queries and OTManagementPage *)

\* what the date entries of the overtime page may hold
OtDateTexts ==
    {<<"2", "0", "2", "4", "-", "0", "6", "-", "3", "0">>,
     <<"2", "0", "2", "4", "-", "0", "7", "-", "0", "1">>,
     <<"2", "0", "2", "4", "-", "7", "-", "5">>,
     <<"2", "0", "2", "4", "-", "0", "7", "-", "3", "1">>,
     <<"2", "0", "2", "4", "-", "0", "8", "-", "0", "1">>,
     <<"3", "1", "-", "0", "7", "-", "2", "0", "2", "4">>}

\* the last day of a month of 2024
DaysInMonth(month) ==
    IF month = 2 THEN 29 ELSE IF month \in {4, 6, 9, 11} THEN 30 ELSE 31

\* datetime.strptime(text, "%Y-%m-%d"): <<year, month, day>>, or <<>> for a
\* ValueError.  %Y takes four digits, %m and %d one or two
strptime(text) ==
    LET dashes == {i \in DOMAIN text : text[i] = "-"}
        second == CHOOSE i \in dashes : i > 5
        year == SubSeq(text, 1, 4)
        month == SubSeq(text, 6, second - 1)
        day == SubSeq(text, second + 1, Len(text))
    IN  IF \/ Len(text) < 8
           \/ Cardinality(dashes) # 2
           \/ 5 \notin dashes
          THEN <<>>
        ELSE IF \/ ~IsDigitStr(year)
                \/ ~(Len(month) \in {1, 2} /\ IsDigitStr(month))
                \/ ~(Len(day) \in {1, 2} /\ IsDigitStr(day))
          THEN <<>>
        ELSE IF \/ ParseInt(month) \notin 1..12
                \/ ParseInt(day) \notin 1..DaysInMonth(ParseInt(month))
          THEN <<>>
        ELSE <<ParseInt(year), ParseInt(month), ParseInt(day)>>

\* date BETWEEN ? AND ? on a TEXT column: both comparisons are of text
Between(text, low, high) == ~TextLess(text, low) /\ ~TextLess(high, text)

\* the rows of the list returned (ORDER BY date DESC, worker_id is left out: the
\* rows are a set); sqlite3.connect is called before the try block
get_all_ot_records_in_range(db, start_date_str, end_date_str, fault) ==
    IF fault = "connect" THEN [result |-> "raises", records |-> {}]
    ELSE IF fault = "execute" THEN [result |-> "list", records |-> {}]
    ELSE [result |-> "list",
          records |-> {o \in db.overtime :
                          Between(o.date, start_date_str, end_date_str)}]

get_ot_records_for_worker_in_range(db, worker_id, start_date_str, end_date_str, fault) ==
    IF fault = "connect" THEN [result |-> "raises", records |-> {}]
    ELSE IF fault = "execute" THEN [result |-> "list", records |-> {}]
    ELSE [result |-> "list",
          records |-> {o \in db.overtime :
                          /\ o.worker_id = worker_id
                          /\ Between(o.date, start_date_str, end_date_str)}]

\* Save OT Record: the worker is one of the combobox (a stored worker), the date
\* has passed strptime, hours and rate are numbers
_save_ot_record ==
    \E worker_id \in {w.id : w \in workers}, date_str \in OtDateTexts,
       fault \in FaultPoints :
      LET ot_hours == 2
          ot_rate == 150
          r == add_ot_record(HrDb, worker_id, date_str, ot_hours, ot_rate,
                             ot_hours * ot_rate, fault)
          shown == get_all_ot_records_in_range(r.db, date_str, date_str, "none")
      IN  /\ overtime_seq < MaxOtRecords
          /\ IF strptime(date_str) = <<>>
               THEN /\ UNCHANGED <<hr_tables, ot_summary_treeview>>
                    /\ last_hr' = CalledHr("_save_ot_record", worker_id,
                                           ReturnsHr("Validation Error", HrDb), 0)
                    /\ Uses(NoConnection)
               ELSE /\ CommitHr(r.db)
                    /\ last_hr' = CalledHr("_save_ot_record", worker_id, r, 0)
                    /\ UNCHANGED ot_summary_treeview
                    /\ Uses(ConnectBeforeTry(fault))
          /\ UNCHANGED <<desc_vars, popup_vars, billing_vars, last, last_saved,
                         ui_vars>>

\* Show Summary for "All Workers" or one worker, with the two filter dates
_show_ot_summary ==
    \E start_date_str \in OtDateTexts, end_date_str \in OtDateTexts,
       worker_filter \in {0} \cup {w.id : w \in workers},
       fault \in {"none", "execute"} :
      LET r == IF worker_filter = 0
               THEN get_all_ot_records_in_range(HrDb, start_date_str,
                                                end_date_str, fault)
               ELSE get_ot_records_for_worker_in_range(HrDb, worker_filter,
                        start_date_str, end_date_str, fault)
      IN  /\ IF strptime(start_date_str) = <<>> \/ strptime(end_date_str) = <<>>
               THEN /\ UNCHANGED ot_summary_treeview
                    /\ last_hr' = CalledHr("_show_ot_summary", worker_filter,
                                           ReturnsHr("Invalid Date", HrDb), 0)
                    /\ Uses(NoConnection)
               ELSE /\ ot_summary_treeview' = r.records
                    /\ last_hr' = CalledHr("_show_ot_summary", worker_filter,
                                           ReturnsHr(r.result, HrDb), 0)
                    /\ Uses(ConnectBeforeTry(fault))
          /\ UNCHANGED <<hr_tables, last_saved>>
          /\ UNCHANGED <<desc_vars, popup_vars, billing_vars, last, ui_vars>>

\* data_entry.get_all_descriptions: [] when the query fails
get_all_descriptions(db, fault) ==
    IF fault = "connect" THEN [result |-> "raises", values |-> {}]
    ELSE IF fault = "execute" \/ "description_master" \notin db.tables
      THEN [result |-> "list", values |-> {}]
    ELSE [result |-> "list",
          values |-> {r.description : r \in db.description_master}]

\* what the entries of the popup may hold when Save Description is pressed
\* (entry.get().strip(): always text)
PopupInputs ==
    {("Description" :> d) @@ ("Customer Part No." :> "AN-001")
        @@ ("SAC Code" :> "998876") @@ ("Rate" :> rate) @@ ("PO No" :> "PO004/D") :
       d \in {"Paint Coating", "Anodizing", ""}, rate \in {"50", "abc", ""}}

\* what `last_popup` records of Save Description: the description typed, the
\* messageboxes shown in order, whether on_submit_callback was invoked, whether
\* the insert stored a new row, and whether the popup was closed
Submitted(description, messages, callback, stored, destroyed) ==
    [description |-> description, messages |-> messages,
     on_submit_callback |-> callback, stored |-> stored, destroyed |-> destroyed]

\* AddDescriptionPopup._submit_form with DataEntryPage's on_new_description_added
\* as its on_submit_callback
_submit_form ==
    \E data_to_submit \in PopupInputs, fault \in FaultPoints,
       refresh_fault \in {"none", "connect", "execute"} :
      LET description == data_to_submit["Description"]
          r == insert_description_to_db(DescDb, data_to_submit, fault)
          stored == r.db.description_seq # description_seq
          shown == IF r.result = "None" THEN <<>> ELSE <<r.result>>
          refreshed == get_all_descriptions(r.db, refresh_fault)
      IN  /\ IF description = "" \/ data_to_submit["Rate"] = ""
                \/ Float(data_to_submit["Rate"]) = <<>>
               THEN /\ last_popup' = Submitted(description, <<"Validation Error">>,
                                               FALSE, FALSE, FALSE)
                    /\ Uses(NoConnection)
                    /\ UNCHANGED <<desc_vars, description_cb>>
             ELSE IF r.result = "raises"
               THEN /\ last_popup' = Submitted(description, <<"Submission Error">>,
                                               FALSE, FALSE, FALSE)
                    /\ last_desc' = CalledDesc("insert_description_to_db",
                                               description, r.result)
                    /\ Uses(ConnectBeforeTry(fault))
                    /\ CommitDesc(r.db)
                    /\ UNCHANGED description_cb
             \* insert_description_to_db returns None on every path: the next
             \* line, on_submit_callback, runs whatever messagebox it showed
             ELSE /\ last_desc' = CalledDesc("insert_description_to_db",
                                             description, r.result)
                  /\ Uses(Plus(ConnectBeforeTry(fault),
                               ConnectBeforeTry(refresh_fault)))
                  /\ CommitDesc(r.db)
                  /\ IF refreshed.result = "raises"
                       THEN /\ last_popup' =
                                  Submitted(description,
                                      shown \o <<"Saved", "Submission Error">>,
                                      TRUE, stored, FALSE)
                            /\ UNCHANGED description_cb
                     ELSE /\ last_popup' = Submitted(description,
                                               shown \o <<"Saved">>, TRUE, stored,
                                               TRUE)
                          /\ description_cb' = refreshed.values
          /\ UNCHANGED <<billing_vars, last, hr_vars, ui_vars,
                         ot_summary_treeview>>

\* the pages as they are built: the overtime summary is empty, the combobox of
\* the data entry page lists the stored descriptions, no popup has been used
InitPages ==
    /\ ot_summary_treeview = {}
    /\ description_cb = {r.description : r \in description_master}
    /\ last_popup = Submitted("", <<>>, FALSE, FALSE, FALSE)

----------------------------------------------------------------------------
(* Specifications *)

\* no call has been made in this process
InitConnections ==
    /\ open_connections = 0
    /\ last_conn = NoConnection

\* no invoice is stored
InitBilling ==
    /\ invoice_headers = {}
    /\ invoice_line_items = {}
    /\ last = [op |-> "init_db", invoice_no |-> <<>>, result |-> "None",
               had_header |-> FALSE, had_items |-> 0, written |-> 0]

\* after database_utils.init_db() on a fresh file: the billing tables are empty
Init ==
    /\ InitBilling
    /\ InitHr
    /\ InitUi
    /\ InitDescriptions
    /\ InitConnections
    /\ InitPages

\* a fresh file, before init_db has run on it
FreshFile ==
    /\ InitBilling
    /\ InitHr
    /\ InitUi
    /\ NoSchema
    /\ InitConnections
    /\ InitPages

\* the header functions on every input, over invoices that may hold line items
NextHeaders ==
    \/ AddInvoiceHeader(DOMAIN HeaderInputs, FaultPoints)
    \/ UpdateInvoiceHeader
    \/ DeleteInvoiceHeader
    \/ AddInvoiceLineItemsBatch({<<1>>, <<1, 2>>}, {"none"})

SpecHeaders == Init /\ [][NextHeaders]_vars

\* the line-item functions on every input, over headers that come and go
NextItems ==
    \/ AddInvoiceHeader({2}, {"none"})
    \/ AddInvoiceLineItemsBatch(BatchInputs, FaultPoints)
    \/ DeleteInvoiceHeader
    \/ DeleteLineItemsForInvoice

SpecItems == Init /\ [][NextItems]_vars

\* save_attendance_records on every batch and fault, and single records deleted
NextAttendance ==
    \/ SaveAttendanceRecords(AttendanceBatchInputs, FaultPoints)
    \/ DeleteAttendanceRecord

SpecAttendance == Init /\ [][NextAttendance]_vars

\* workers added, updated and deleted, with attendance and overtime rows recorded for them
NextWorkers ==
    \/ AddWorker
    \/ UpdateWorker
    \/ DeleteWorker
    \/ SaveAttendanceRecords({b \in AttendanceBatchInputs :
                                 Len(b) = 1 /\ b[1][2] = "2024-07-20" /\ b[1][3] = 1},
                             {"none"})
    \/ AddOtRecord

SpecWorkers == Init /\ [][NextWorkers]_vars

\* the billing page used to enter and save new invoices
NextBillingUI ==
    \/ TypeInvoiceNo
    \/ add_line_item_to_treeview
    \/ _create_new_invoice_logic

SpecBillingUI == Init /\ [][NextBillingUI]_vars

\* the billing page with its history: invoices created, opened for editing,
\* updated and deleted
NextBillingEdit ==
    \/ add_line_item_to_treeview
    \/ save_invoice
    \/ _on_history_select
    \/ _edit_selected_invoice
    \/ _delete_selected_invoice

SpecBillingEdit == Init /\ [][NextBillingEdit]_vars

\* headers stored and removed, and the billing page opened on what is stored
NextNumbering ==
    \/ StoreInvoiceNo
    \/ RemoveInvoiceNo
    \/ __init__

SpecNumbering == Init /\ [][NextNumbering]_vars

\* the same with invoice numbers that carry a sign or a separator
NextSignedNumbering ==
    \/ StoreSignedInvoiceNo
    \/ RemoveSignedInvoiceNo
    \/ __init__

SpecSignedNumbering == Init /\ [][NextSignedNumbering]_vars

\* init_db run on a file at every stage of its set-up, and descriptions added
NextDescriptions ==
    \/ InitDb
    \/ InsertDescriptionToDb

SpecDescriptions == FreshFile /\ [][NextDescriptions]_vars

\* descriptions added through the popup of the data entry page and by direct
\* calls, on the seeded catalog
NextPopup ==
    \/ _submit_form
    \/ InsertDescriptionToDb

SpecPopup == Init /\ [][NextPopup]_vars

\* store calls that connect inside and before their try block and the page's
\* get_last_invoice_no, with a fault at every step
NextConnections ==
    \/ __init__
    \/ AddInvoiceHeader({2}, FaultPoints)
    \/ SaveAttendanceRecords({b \in AttendanceBatchInputs :
                                 Len(b) = 1 /\ b[1][2] = "2024-07-20" /\ b[1][3] = 1},
                             FaultPoints)
    \/ DeleteWorker

SpecConnections == Init /\ [][NextConnections]_vars

\* overtime recorded for stored workers and summarised over date ranges
NextOvertime ==
    \/ AddWorker
    \/ _save_ot_record
    \/ _show_ot_summary

SpecOvertime == Init /\ [][NextOvertime]_vars

\* invoices, line items and attendance records stored and deleted
NextDeletes ==
    \/ AddInvoiceHeader({2}, {"none"})
    \/ AddInvoiceLineItemsBatch({<<1>>}, {"none"})
    \/ DeleteInvoiceHeader
    \/ DeleteLineItemsForInvoice
    \/ SaveAttendanceRecords({b \in AttendanceBatchInputs :
                                 Len(b) = 1 /\ b[1][2] = "2024-07-20" /\ b[1][3] = 1},
                             {"none"})
    \/ DeleteAttendanceRecord

SpecDeletes == Init /\ [][NextDeletes]_vars



----------------------------------------------------------------------------
(* Claims on the invoice header functions (SpecHeaders) *)

\* the NOT NULL columns of a header are given
HasRequired(header_data) ==
    \A col \in HeaderNotNull :
        col \in DOMAIN header_data /\ ~IsNull(col, header_data[col])

\* C2: in every reachable state, for an invoice_no that is not stored and a
\* payload with its required fields, add_invoice_header returns True, and a
\* second call with the same invoice_no and any payload returns "DUPLICATE" and
\* leaves the tables as the first call left them: the stored header has exactly
\* the field values of the first call.
C2_SecondAddIsDuplicate ==
    \A n \in InvoiceNos, i \in DOMAIN HeaderInputs, j \in DOMAIN HeaderInputs :
      LET first == add_invoice_header(BillingDb, HeaderData(n, i), "none")
          second == add_invoice_header(first.db, HeaderData(n, j), "none")
          stored == get_invoice_header_by_no(second.db, n)
      IN  (~HeaderPrimaryKeyTaken(invoice_headers, n) /\ HasRequired(HeaderData(n, i)))
          => /\ first.result = "True"
             /\ second.result = "DUPLICATE"
             /\ second.db = first.db
             /\ Len(stored) = 1
             /\ \A col \in DOMAIN HeaderData(n, i) :
                    stored[1][col] = HeaderData(n, i)[col]

\* a second add_invoice_header on a stored invoice_no has answered "DUPLICATE"
C2_Witness ==
    /\ last.op = "add_invoice_header"
    /\ last.result = "DUPLICATE"
    /\ last.had_header

\* C3: add_invoice_header answers "DUPLICATE" only when a header with the same
\* invoice_no was already stored; any other failure answers False.
C3_DuplicateOnlyWhenStored ==
    (last.op = "add_invoice_header" /\ last.result = "DUPLICATE")
        => last.had_header

\* a header with the keys of header_data in `keys` set to header_data's values
PatchedBy(h, header_data, keys) ==
    [col \in Range(header_columns) |->
        IF col \in keys THEN header_data[col] ELSE h[col]]

\* update_invoice_header(n, header_data) sets exactly `keys` on the header n, or
\* (when it does not return True) changes nothing; other headers and all line
\* items stay as they are
UpdateSetsExactly(n, header_data, fault, keys) ==
    LET r == update_invoice_header(BillingDb, n, header_data, fault)
        others(headers) == {h \in headers : h.invoice_no # n}
    IN  /\ r.db.invoice_line_items = invoice_line_items
        /\ r.result = "True" =>
             \E old \in invoice_headers :
               /\ old.invoice_no = n
               /\ r.db.invoice_headers =
                    others(invoice_headers) \cup {PatchedBy(old, header_data, keys)}
        /\ r.result # "True" => r.db = BillingDb

\* C10 (as amended): update_invoice_header changes exactly the columns named by
\* the keys of the partial record other than 'invoice_no' (an 'invoice_no' key
\* is dropped from the SET clause); every other column of that header, every
\* other header, and all line items keep their values.
C10_UpdatePatchesKeysButInvoiceNo ==
    \A n \in InvoiceNos, i \in DOMAIN UpdateInputs, fault \in FaultPoints :
      UpdateSetsExactly(n, UpdateInputs[i], fault,
                        DOMAIN UpdateInputs[i] \ {"invoice_no"})

\* C10 (as claimed): update_invoice_header changes exactly the columns named by
\* the keys of the partial record.
C10_UpdatePatchesEveryKey ==
    \A n \in InvoiceNos, i \in DOMAIN UpdateInputs, fault \in FaultPoints :
      UpdateSetsExactly(n, UpdateInputs[i], fault,
                        DOMAIN UpdateInputs[i] \cap Range(header_columns))

\* an update has succeeded on an invoice with line items, beside another header
C10_Witness ==
    /\ last.op = "update_invoice_header"
    /\ last.result = "True"
    /\ last.had_items > 0
    /\ Cardinality(invoice_headers) > 1

----------------------------------------------------------------------------
(* Claims on the line-item functions (SpecItems) *)

C8_BatchAllOrNothing ==
    \A n \in InvoiceNos, b \in BatchInputs :
      \A fault \in BatchFaults(b) :
        \A fault_at \in FaultAts(fault, Len(b)) :
          LET list == LineItemsList(n, b)
              tx == LineItemsTx(BillingDb, list, fault, fault_at)
              r == add_invoice_line_items_batch(BillingDb, list, fault, fault_at)
          IN  /\ (fault # "none" \/ tx.error # "none")
                   => (r.result = "False" /\ r.db = BillingDb)
              /\ r.result = "True"
                   => \A k \in DOMAIN list :
                        \E row \in r.db.invoice_line_items :
                          \A col \in Range(line_item_columns) : row[col] = list[k][col]

\* a batch has failed after at least one of its items had been inserted
C8_Witness ==
    /\ last.op = "add_invoice_line_items_batch"
    /\ last.result = "False"
    /\ last.written >= 1

\* a sequence of rows is in ascending line_no order
Ascending(items) ==
    \A p \in DOMAIN items, q \in DOMAIN items :
        p < q => items[p].line_no < items[q].line_no

\* C9: no two stored line items share (invoice_no, line_no); a batch that repeats
\* a stored (invoice_no, line_no) fails; a batch of complete items with line
\* numbers that are new and distinct succeeds; and get_line_items_for_invoice
\* returns the invoice's items in ascending line_no order.
C9_LineNoUniqueAndOrdered ==
    /\ \A r1 \in invoice_line_items, r2 \in invoice_line_items :
         (r1.invoice_no = r2.invoice_no /\ r1.line_no = r2.line_no) => r1 = r2
    /\ \A n \in InvoiceNos :
         LET items == get_line_items_for_invoice(BillingDb, n)
         IN  /\ Ascending(items)
             /\ Range(items) = {r \in invoice_line_items : r.invoice_no = n}
    /\ \A n \in InvoiceNos, b \in BatchInputs :
         LET list == LineItemsList(n, b)
             r == add_invoice_line_items_batch(BillingDb, list, "none", 0)
             repeats == \E k \in DOMAIN list, row \in invoice_line_items :
                          row.invoice_no = n /\ row.line_no = list[k].line_no
             complete == \A k \in DOMAIN list, col \in LineItemNotNull :
                           ~IsNull(col, list[k][col])
             distinct == \A k1 \in DOMAIN list, k2 \in DOMAIN list :
                           list[k1].line_no = list[k2].line_no => k1 = k2
         IN  /\ repeats => r.result = "False"
             /\ (complete /\ distinct /\ ~repeats) => r.result = "True"

\* a batch with a new line_no has been added to an invoice that had line items
C9_Witness ==
    /\ last.op = "add_invoice_line_items_batch"
    /\ last.result = "True"
    /\ last.had_items >= 1
    /\ Len(get_line_items_for_invoice(BillingDb, last.invoice_no)) > last.had_items

----------------------------------------------------------------------------
(* Claims on workers, attendance and overtime (SpecWorkers, SpecAttendance) *)

\* C5: after delete_worker(worker_id) has returned True for a worker that had
\* attendance rows and overtime rows, no attendance row and no overtime row with
\* that worker_id is stored.
C5_DeleteWorkerCascades ==
    (/\ last_hr.op = "delete_worker"
     /\ last_hr.result = "True"
     /\ last_hr.had_attendance >= 1
     /\ last_hr.had_overtime >= 1)
        => /\ \A a \in attendance : a.worker_id # last_hr.worker_id
           /\ \A o \in overtime : o.worker_id # last_hr.worker_id

\* C6: after any sequence of save_attendance_records calls the attendance table
\* holds at most one row per (worker_id, date), and that row's status,
\* punch_in_time and punch_out_time are those of the record most recently saved
\* for the key.
C6_OneRowPerKeyWithLastSaved ==
    /\ \A r1 \in attendance, r2 \in attendance :
         (r1.worker_id = r2.worker_id /\ r1.date = r2.date) => r1 = r2
    /\ \A a \in attendance :
         LET saved == last_saved[<<a.worker_id, a.date>>]
         IN  /\ Len(saved) = 1
             /\ a.status = saved[1].status
             /\ a.punch_in_time = saved[1].punch_in_time
             /\ a.punch_out_time = saved[1].punch_out_time
    /\ \A key \in DOMAIN last_saved :
         last_saved[key] # <<>> =>
           \E a \in attendance : a.worker_id = key[1] /\ a.date = key[2]

\* a save has gone through in which more statements ran than there are rows: a
\* statement of it met a row that was already there for its key
C6_Witness ==
    /\ last_hr.op = "save_attendance_records"
    /\ last_hr.result = "True"
    /\ last_hr.written > Cardinality(attendance)

\* C7: save_attendance_records is all-or-nothing: when any statement of the batch
\* fails (or the connection or the commit does) it returns False and the tables
\* are exactly as before the call; when it returns True every key of the batch
\* holds the batch's last record for it.
C7_SaveAllOrNothing ==
    \A b \in AttendanceBatchInputs :
      \A fault \in BatchFaults(b) :
        \A fault_at \in FaultAts(fault, Len(b)) :
          LET records_to_save == RecordsToSave(b)
              tx == AttendanceTx(HrDb, records_to_save, fault, fault_at)
              r == save_attendance_records(HrDb, records_to_save, fault, fault_at)
          IN  /\ (fault # "none" \/ tx.error # "none")
                   => (r.result = "False" /\ r.db = HrDb)
              /\ r.result = "True"
                   => \A key \in DOMAIN last_saved :
                        LastOfKey(records_to_save, key) # <<>>
                          => LastOfKey(records_to_save, key)[1] \in r.db.attendance

\* a save has failed after at least one of its statements had gone through
C7_Witness ==
    /\ last_hr.op = "save_attendance_records"
    /\ last_hr.result = "False"
    /\ last_hr.written >= 1

\* C16: no worker or overtime function lets a storage exception reach its
\* caller: a failure at any step of the call, opening the connection included,
\* comes back as the function's failure value.
C16_NoExceptionReachesCaller ==
    last_hr.result \in {"True", "False", "None", "lastrowid"}

\* what update_worker leaves of worker_id's row and of the other tables
UpdateOverwrites(r, worker_id, worker_data) ==
    /\ \A w \in r.db.workers :
         w.id = worker_id =>
           \A col \in Range(worker_columns) : w[col] = DictGet(worker_data, col)
    /\ {w.id : w \in r.db.workers} = {w.id : w \in workers}
    /\ {w \in r.db.workers : w.id # worker_id}
          = {w \in workers : w.id # worker_id}
    /\ r.db.attendance = attendance
    /\ r.db.overtime = overtime

\* C20: when update_worker(id, record) returns True, every one of the eleven
\* data columns of worker id equals record's value for that key, or NULL when the
\* key is absent from record, and no other row changes; when it returns False
\* (a storage error, or a record without first_name for a stored worker) every
\* row is as it was before the call.
C20_UpdateOverwritesOnSuccess ==
    \A worker_id \in WorkerIds, i \in DOMAIN UpdateWorkerInputs,
       fault \in FaultPoints \ {"connect"} :
      LET r == update_worker(HrDb, worker_id, UpdateWorkerInputs[i], fault)
      IN  /\ r.result \in {"True", "False"}
          /\ r.result = "True"
               => UpdateOverwrites(r, worker_id, UpdateWorkerInputs[i])
          /\ r.result = "False" => r.db = HrDb
          /\ (fault = "none" /\ "first_name" \in DOMAIN UpdateWorkerInputs[i])
               => r.result = "True"

\* C20 as stated: after any update_worker(id, record) that met no storage error,
\* every data column of worker id equals record's value for that key, or NULL
\* when the key is absent from record.
C20_UpdateOverwritesAlways ==
    \A worker_id \in WorkerIds, i \in DOMAIN UpdateWorkerInputs :
      UpdateOverwrites(update_worker(HrDb, worker_id, UpdateWorkerInputs[i], "none"),
                       worker_id, UpdateWorkerInputs[i])

\* update_worker has returned True for a stored worker whose last_name, set when
\* the worker was added, is now NULL
C20_Witness ==
    /\ last_hr.op = "update_worker"
    /\ last_hr.result = "True"
    /\ last_hr.had_worker
    /\ \E w \in workers : w.id = last_hr.worker_id /\ w.last_name = NULL

----------------------------------------------------------------------------
(* Claims on BillingEntryPage (SpecBillingUI) *)

\* C1: when the create flow has inserted the header and
\* add_invoice_line_items_batch has then failed, the flow deletes the header:
\* once it has returned, get_invoice_header_by_no(invoice_no) is None and no
\* line item of that invoice_no is stored.
C1_NoOrphanedHeader ==
    (/\ last_ui.op = "_create_new_invoice_logic"
     /\ last_ui.header_result = "True"
     /\ last_ui.items_result = "False")
        => /\ get_invoice_header_by_no(BillingDb, last_ui.invoice_no) = <<>>
           /\ get_line_items_for_invoice(BillingDb, last_ui.invoice_no) = <<>>

----------------------------------------------------------------------------
(* Claims on the invoice number suggestion (SpecNumbering) *)

\* the invoice numbers stored now
StoredNos == {h.invoice_no : h \in invoice_headers}

\* the largest of a non-empty set of integers
MaxOf(ints) == CHOOSE m \in ints : \A c \in ints : c <= m

\* C11: with exactly "1", "002" and "10" stored, get_last_invoice_no returns "10"
\* and _generate_next_invoice_no returns "11"; whenever every stored invoice
\* number is a digit string, the suggestion is a digit string whose value is the
\* numeric maximum plus one.
C11_NumericMaxPlusOne ==
    LET last_no == get_last_invoice_no(BillingDb, "none")
        next_no == _generate_next_invoice_no(BillingDb, "none")
    IN  /\ StoredNos = {<<"1">>, <<"0", "0", "2">>, <<"1", "0">>}
             => (last_no = <<<<"1", "0">>>> /\ next_no = <<"1", "1">>)
        /\ (StoredNos # {} /\ \A n \in StoredNos : IsDigitStr(n))
             => /\ IsDigitStr(next_no)
                /\ ParseInt(next_no) = MaxOf({ParseInt(n) : n \in StoredNos}) + 1

\* the page has been opened on "1", "002", "10" and suggests "11"
C11_Witness ==
    /\ last_ui.op = "__init__"
    /\ StoredNos = {<<"1">>, <<"0", "0", "2">>, <<"1", "0">>}
    /\ invoice_no_var = <<"1", "1">>

\* C12: with "INV005" stored beside "1", "002" and "10", get_last_invoice_no
\* returns the lexicographic maximum "INV005".
C12_FallbackOnNonNumeric ==
    StoredNos = {<<"1">>, <<"0", "0", "2">>, <<"1", "0">>,
                 <<"I", "N", "V", "0", "0", "5">>}
        => get_last_invoice_no(BillingDb, "none")
             = <<<<"I", "N", "V", "0", "0", "5">>>>

C14_SuggestionKeepsFormat ==
    LET next_no == _generate_next_invoice_no(BillingDb, "none")
    IN  /\ StoredNos = {<<"I", "N", "V", "0", "0", "5">>}
             => next_no = <<"I", "N", "V", "0", "0", "6">>
        /\ StoredNos = {<<"0", "0", "2">>}
             => next_no = <<"0", "0", "3">>

\* C15: _generate_next_invoice_no always returns a non-empty string, whatever is
\* stored and wherever a storage fault strikes; on an empty table, and when
\* get_last_invoice_no returns None, it returns "001".
C15_SuggestionNeverEmpty ==
    \A fault \in ReadFaultPoints :
      LET next_no == _generate_next_invoice_no(BillingDb, fault)
      IN  /\ Len(next_no) > 0
          /\ (invoice_headers = {} \/ get_last_invoice_no(BillingDb, fault) = <<>>)
               => next_no = <<"0", "0", "1">>

\* the page has been opened while a storage error hid the stored invoices: it
\* suggests "001"
C15_Witness ==
    /\ last_ui.op = "__init__"
    /\ last_ui.message = "last: None, storage error"
    /\ invoice_no_var = <<"0", "0", "1">>

----------------------------------------------------------------------------
(* Claims on init_db and the description catalogue (SpecDescriptions) *)

\* the rows init_db would add to a description_master whose counter is seq
SampleRows(seq) ==
    {sample_descriptions[k] @@ [id |-> seq + k] : k \in DOMAIN sample_descriptions}

\* C18: init_db on an initialised database raises no error, adds no table and
\* changes no row, so that a second call changes nothing; it never removes or
\* changes a row; and it inserts the three sample descriptions exactly when
\* description_master is empty at the time of the call, never when it already
\* holds a row.
C18_InitDbIdempotent ==
    LET r == init_db(DescDb, "none", 1)
        again == init_db(r.db, "none", 1)
    IN  /\ r.result = "None"
        /\ r.db.tables = Range(TableNames)
        /\ again.result = "None" /\ again.db = r.db
        /\ (tables = Range(TableNames) /\ description_master # {}) => r.db = DescDb
        /\ description_master = {}
             => r.db.description_master = SampleRows(description_seq)
        /\ description_master # {}
             => r.db.description_master = description_master
        /\ \A fault \in InitDbFaults, fault_at \in DOMAIN TableNames :
             LET f == init_db(DescDb, fault, fault_at)
             IN  /\ description_master \subseteq f.db.description_master
                 /\ tables \subseteq f.db.tables
                 /\ f.db.description_master # description_master
                      => (description_master = {} /\ f.result = "None")

\* init_db has returned on a file whose description_master held a row but none
\* of the sample descriptions, and has not added them
C18_Witness ==
    /\ last_desc.op = "init_db"
    /\ last_desc.outcome = "None"
    /\ ~last_desc.was_empty
    /\ description_master # {}
    /\ \A row \in description_master : row.description = "Anodizing"

\* C19: no two rows of description_master have the same description;
\* insert_description_to_db with a description that is already stored adds no
\* row and changes none, and when the rate is a number and storage does not fail
\* its outcome is the "already exists" error, which is neither the database
\* error nor the invalid-rate error.
C19_DescriptionsUnique ==
    /\ \A r1 \in description_master, r2 \in description_master :
         r1.description = r2.description => r1 = r2
    /\ \A data \in DescriptionInputs, fault \in FaultPoints \ {"connect"} :
         LET r == insert_description_to_db(DescDb, data, fault)
         IN  DescriptionUniqueTaken(description_master, data["Description"])
               => /\ r.db = DescDb
                  /\ r.result \in {"Error", "Database Error", "Invalid Input"}
                  /\ (Float(data["Rate"]) # <<>> /\ fault \in {"none", "commit"})
                       => /\ r.result = "Error"
                          /\ r.result \notin {"Database Error", "Invalid Input"}

\* a description that was stored has been inserted again and the duplicate was
\* reported
C19_Witness ==
    /\ last_desc.op = "insert_description_to_db"
    /\ last_desc.was_stored
    /\ last_desc.outcome = "Error"
    /\ Cardinality(description_master) > Len(sample_descriptions)

----------------------------------------------------------------------------
(* Claims on connections (SpecConnections) *)

\* C17: every store call closes every connection it opened before it returns,
\* wherever a storage fault strikes it, get_last_invoice_no with its fallback
\* and its second connection included: no connection is open between calls.
C17_NoConnectionStaysOpen ==
    /\ open_connections = 0
    /\ last_conn.closed = last_conn.opened
    /\ \A fault \in ReadFaultPoints :
         LET c == get_last_invoice_no_connections(fault)
         IN  c.closed = c.opened
    /\ \A fault \in FaultPoints :
         /\ ConnectInsideTry(fault).closed = ConnectInsideTry(fault).opened
         /\ ConnectBeforeTry(fault).closed = ConnectBeforeTry(fault).opened

\* the page has been opened while the first connect of each store call failed:
\* get_last_invoice_no has opened its second connection, read the invoice
\* numbers through it and closed it
C17_Witness ==
    /\ last_ui.op = "__init__"
    /\ last_ui.message = "last: str"
    /\ history_tree = {}
    /\ invoice_headers # {}
    /\ last_conn = [opened |-> 1, closed |-> 1]

----------------------------------------------------------------------------
(* Claims on overtime queries (SpecOvertime) *)

\* the date text lies from low to high, compared as calendar dates
BetweenAsDates(text, low, high) ==
    LET Day(t) == LET d == strptime(t)
                  IN  IF d = <<>> THEN 0 ELSE d[1] * 10000 + d[2] * 100 + d[3]
    IN  Day(low) <= Day(text) /\ Day(text) <= Day(high)

\* C21: get_all_ot_records_in_range(start_date, end_date) returns exactly the
\* stored overtime entries dated from start_date to end_date, both included:
\* an entry dated on either bound is returned, an entry dated a day before
\* start_date or a day after end_date is not.
C21_RangeIsInclusiveByDate ==
    \A start_date_str \in OtDateTexts, end_date_str \in OtDateTexts :
      (strptime(start_date_str) # <<>> /\ strptime(end_date_str) # <<>>)
        => get_all_ot_records_in_range(HrDb, start_date_str, end_date_str,
                                       "none").records
             = {o \in overtime :
                   BetweenAsDates(o.date, start_date_str, end_date_str)}

----------------------------------------------------------------------------
(* Claims on deletes (SpecDeletes) *)

\* C22: a delete of what is not stored is a successful no-op:
\* delete_attendance_record for a (worker_id, date) with no row, and
\* delete_invoice_header and delete_line_items_for_invoice for an invoice_no
\* with no rows, return True and leave every table as it was; a delete applied
\* twice leaves what it leaves applied once.
C22_DeleteOfAbsentIsNoOp ==
    /\ \A n \in InvoiceNos :
         LET once == delete_invoice_header(BillingDb, n, "none")
             twice == delete_invoice_header(once.db, n, "none")
             items == delete_line_items_for_invoice(BillingDb, n, "none")
             items2 == delete_line_items_for_invoice(items.db, n, "none")
             no_header == ~HeaderPrimaryKeyTaken(invoice_headers, n)
             no_items == \A li \in invoice_line_items : li.invoice_no # n
         IN  /\ (no_header /\ no_items)
                  => (once.result = "True" /\ once.db = BillingDb)
             /\ no_items => (items.result = "True" /\ items.db = BillingDb)
             /\ twice.result = "True" /\ twice.db = once.db
             /\ items2.result = "True" /\ items2.db = items.db
    /\ \A worker_id \in WorkerIds, date_str \in Dates :
         LET once == delete_attendance_record(HrDb, worker_id, date_str, "none")
             twice == delete_attendance_record(once.db, worker_id, date_str, "none")
         IN  /\ (\A a \in attendance :
                    ~(a.worker_id = worker_id /\ a.date = date_str))
                  => (once.result = "True" /\ once.db = HrDb)
             /\ twice.result = "True" /\ twice.db = once.db

\* delete_invoice_header has returned True for an invoice_no that had no header
\* and no line item, while another invoice and an attendance row are stored
C22_Witness ==
    /\ last.op = "delete_invoice_header"
    /\ last.result = "True"
    /\ ~last.had_header
    /\ last.had_items = 0
    /\ invoice_headers # {}
    /\ attendance # {}

\* C23: once a billing page action (save new invoice, update invoice, delete
\* invoice) has returned, every stored invoice header has at least one stored
\* line item, whichever store call failed on the way; in particular the update
\* flow leaves no header without line items when the re-insert of the line
\* items fails after the old ones were deleted
C23_EveryHeaderHasLineItems ==
    \A h \in invoice_headers :
        \E r \in invoice_line_items : r.invoice_no = h.invoice_no


\* C24: the foreign keys are enforced on insert, so after any sequence of
\* store calls every line item references a stored header and every attendance
\* or overtime row references a stored worker
C24_EveryReferenceResolves ==
    /\ \A r \in invoice_line_items :
           \E h \in invoice_headers : h.invoice_no = r.invoice_no
    /\ \A a \in attendance : \E w \in workers : w.id = a.worker_id
    /\ \A o \in overtime : \E w \in workers : w.id = o.worker_id

\* C25: a successful update of invoice X through _update_invoice_logic leaves,
\* as the stored line items of X, exactly the line items of the edit form: no
\* line item of the previous version survives and none of the form's is missing
C25_UpdateStoresExactlyTheFormItems ==
    (edit_mode /\ editing_invoice_no # <<>>) =>
      \A form \in HeaderFormInputs, header_fault \in {"none", "execute"},
         delete_fault \in {"none", "execute"}, items_fault \in {"none", "execute"} :
        \A items_fault_at \in FaultAts(items_fault, Len(line_items_data)) :
          LET X == editing_invoice_no[1]
              calls == _update_invoice_logic_calls(BillingDb, X, line_items_data,
                           form, header_fault, delete_fault, items_fault,
                           items_fault_at)
              stored == {r \in calls.db.invoice_line_items : r.invoice_no = X}
              of_form == {[invoice_no |-> X] @@ line_items_data[k] :
                             k \in DOMAIN line_items_data}
          IN  calls.message = "Invoice Updated" =>
                /\ stored = of_form
                /\ Cardinality(stored) = Len(line_items_data)
                /\ {r \in calls.db.invoice_line_items : r.invoice_no # X}
                     = {r \in invoice_line_items : r.invoice_no # X}

\* an update has gone through and the invoice now holds two line items
C25_Witness ==
    /\ last_ui.op = "_update_invoice_logic"
    /\ last_ui.message = "Invoice Updated"
    /\ Cardinality({r \in invoice_line_items :
                       r.invoice_no = last_ui.invoice_no}) = 2

\* the amounts of a set of stored line items, added up
RECURSIVE AmountsTotal(_)
AmountsTotal(rows) ==
    IF rows = {} THEN 0
    ELSE LET r == CHOOSE x \in rows : TRUE
         IN  r.amount + AmountsTotal(rows \ {r})

\* C26: after every successful save through the billing page, create or update,
\* the stored header's total_amount is the sum of the amounts of the invoice's
\* stored line items, and each stored line item has quantity > 0, rate >= 0
\* and amount = quantity * rate
C26_TotalIsSumOfStoredAmounts ==
    (/\ last_ui.op \in {"_create_new_invoice_logic", "_update_invoice_logic"}
     /\ last_ui.message \in {"Success", "Invoice Updated"}) =>
      LET X == last_ui.invoice_no
          rows == {r \in invoice_line_items : r.invoice_no = X}
      IN  /\ \E h \in invoice_headers :
                 h.invoice_no = X /\ h.total_amount = AmountsTotal(rows)
          /\ \A r \in rows :
                 r.quantity > 0 /\ r.rate >= 0 /\ r.amount = r.quantity * r.rate

\* a new invoice with two line items has been saved
C26_Witness ==
    /\ last_ui.op = "_create_new_invoice_logic"
    /\ last_ui.message = "Success"
    /\ Cardinality({r \in invoice_line_items :
                       r.invoice_no = last_ui.invoice_no}) = 2
    /\ \E h \in invoice_headers :
           h.invoice_no = last_ui.invoice_no /\ h.total_amount = 100

\* C27: a create attempt whose add_invoice_header returned "DUPLICATE" or False
\* inserts no line items and runs no compensating delete, and leaves the stored
\* headers and line items as they were; the compensating delete_invoice_header
\* runs only for a header that the same attempt inserted
C27_FailedCreateLeavesStoredInvoice ==
    [][(last_ui'.op = "_create_new_invoice_logic") =>
         /\ (last_ui'.header_result \in {"DUPLICATE", "False"} =>
               /\ last_ui'.items_result = "-"
               /\ last_ui'.delete_result = "-"
               /\ UNCHANGED <<invoice_headers, invoice_line_items>>)
         /\ (last_ui'.delete_result # "-" =>
               /\ last_ui'.header_result = "True"
               /\ ~last_ui'.had_header)
         /\ (last_ui'.had_header /\ last_ui'.header_result # "-" =>
               last_ui'.header_result \in {"DUPLICATE", "False"})]_vars

\* a create attempt under the number of a stored invoice was answered "DUPLICATE"
\* and the stored invoice still has its header and its line item
C27_Witness ==
    /\ last_ui.op = "_create_new_invoice_logic"
    /\ last_ui.header_result = "DUPLICATE"
    /\ last_ui.had_header
    /\ \E h \in invoice_headers : h.invoice_no = last_ui.invoice_no
    /\ \E r \in invoice_line_items : r.invoice_no = last_ui.invoice_no

\* C28: update_invoice_header for an invoice_no with no stored header returns
\* False and creates no header, and the update flow then stops before it touches
\* line items: an invoice deleted while it is open in edit mode is not recreated
\* and gets no line items when Update Invoice is pressed
C28_UpdateOfDeletedInvoiceStops ==
    (/\ edit_mode
     /\ editing_invoice_no # <<>>
     /\ ~HeaderPrimaryKeyTaken(invoice_headers, editing_invoice_no[1])) =>
      \A form \in HeaderFormInputs, header_fault \in {"none", "execute"},
         delete_fault \in {"none", "execute"}, items_fault \in {"none", "execute"} :
        \A items_fault_at \in FaultAts(items_fault, Len(line_items_data)) :
          LET X == editing_invoice_no[1]
              calls == _update_invoice_logic_calls(BillingDb, X, line_items_data,
                           form, header_fault, delete_fault, items_fault,
                           items_fault_at)
          IN  /\ calls.message # "Invoice Updated"
              /\ calls.header_result \in {"-", "False"}
              /\ calls.delete_result = "-"
              /\ calls.items_result = "-"
              /\ calls.db = BillingDb

\* Update Invoice was pressed for an invoice deleted while open in edit mode:
\* the header update answered False, the form has items, nothing is stored for it
C28_Witness ==
    /\ last_ui.op = "_update_invoice_logic"
    /\ last_ui.header_result = "False"
    /\ ~last_ui.had_header
    /\ edit_mode
    /\ line_items_data # <<>>
    /\ ~HeaderPrimaryKeyTaken(invoice_headers, last_ui.invoice_no)
    /\ ~\E r \in invoice_line_items : r.invoice_no = last_ui.invoice_no

\* C29: for every reachable set of stored invoice headers the number that
\* _generate_next_invoice_no returns is the invoice_no of no stored header, so
\* saving an invoice under the suggested number is never answered "DUPLICATE"
C29_SuggestedNumberIsFree ==
    LET suggested == _generate_next_invoice_no(BillingDb, "none")
    IN  /\ ~HeaderPrimaryKeyTaken(invoice_headers, suggested)
        /\ add_invoice_header(BillingDb, HeaderData(suggested, 2), "none").result
             # "DUPLICATE"

\* C30: _submit_form invokes on_submit_callback (the 'added successfully'
\* message) only when insert_description_to_db stored a new row in that
\* submission; after a duplicate or a database failure it is not invoked
C30_CallbackOnlyWhenStored ==
    last_popup.on_submit_callback =>
      /\ last_popup.stored
      /\ \E i \in DOMAIN last_popup.messages : last_popup.messages[i] = "Saved"
      /\ \A i \in DOMAIN last_popup.messages :
             last_popup.messages[i] \notin {"Error", "Database Error"}

====
